---- MODULE Spec2Model ----
(***************************************************************************)
(* libproxyprotocol (src/src/proxy_protocol.c): the PROXY protocol v1/v2   *)
(* codec.  Bytes are integers 0..255, buffers are sequences of bytes       *)
(* (index 1 is offset 0), a 32-bit word is the tuple of its four bytes,    *)
(* least significant first (the layout memcpy gives on a little-endian     *)
(* build; creator and parser only ever compare the four bytes as laid      *)
(* out, so the choice is not observable).                                  *)
(***************************************************************************)
EXTENDS Integers, Sequences, FiniteSets, TLC

(* ---------------------------------------------------------------------- *)
(* Program constants                                                       *)
(* ---------------------------------------------------------------------- *)
PP1_MAX_LENGHT == 108
ADDR_SIZE == 108
HDR_SIZE == 16
sizeof_pp2_tlv_t == 3
UINT16_MAX == 65535

PP2_TYPE_ALPN == 1
PP2_TYPE_AUTHORITY == 2
PP2_TYPE_CRC32C == 3
PP2_TYPE_NOOP == 4
PP2_TYPE_UNIQUE_ID == 5
PP2_TYPE_SSL == 32
PP2_SUBTYPE_SSL_VERSION == 33
PP2_SUBTYPE_SSL_CN == 34
PP2_SUBTYPE_SSL_CIPHER == 35
PP2_SUBTYPE_SSL_SIG_ALG == 36
PP2_SUBTYPE_SSL_KEY_ALG == 37
PP2_TYPE_NETNS == 48
PP2_TYPE_AWS == 234
PP2_TYPE_AZURE == 238
PP2_SUBTYPE_AWS_VPCE_ID == 1
PP2_SUBTYPE_AZURE_PRIVATEENDPOINT_LINKID == 1

ADDR_FAMILY_UNSPEC == 0
ADDR_FAMILY_INET == 1
ADDR_FAMILY_INET6 == 2
ADDR_FAMILY_UNIX == 3
TRANSPORT_PROTOCOL_UNSPEC == 0
TRANSPORT_PROTOCOL_STREAM == 1
TRANSPORT_PROTOCOL_DGRAM == 2

(* The error numbers are the indices of errors[]; the library returns      *)
(* them negated.                                                           *)
ERR_NULL == 0
ERR_PP_VERSION == 1
ERR_PP2_SIG == 2
ERR_PP2_VERSION == 3
ERR_PP2_CMD == 4
ERR_PP2_ADDR_FAMILY == 5
ERR_PP2_TRANSPORT_PROTOCOL == 6
ERR_PP2_LENGTH == 7
ERR_PP2_IPV4_SRC_IP == 8
ERR_PP2_IPV4_DST_IP == 9
ERR_PP2_IPV6_SRC_IP == 10
ERR_PP2_IPV6_DST_IP == 11
ERR_PP2_TLV_LENGTH == 12
ERR_PP2_TYPE_CRC32C == 13
ERR_PP2_TYPE_SSL == 14
ERR_PP2_TYPE_UNIQUE_ID == 15
ERR_PP2_TYPE_AWS == 16
ERR_PP2_TYPE_AZURE == 17
ERR_PP1_CRLF == 18
ERR_PP1_PROXY == 19
ERR_PP1_SPACE == 20
ERR_PP1_TRANSPORT_FAMILY == 21
ERR_PP1_IPV4_SRC_IP == 22
ERR_PP1_IPV4_DST_IP == 23
ERR_PP1_IPV6_SRC_IP == 24
ERR_PP1_IPV6_DST_IP == 25
ERR_PP1_SRC_PORT == 26
ERR_PP1_DST_PORT == 27
ERR_HEAP_ALLOC == 28

(* "\x0D\x0A\x0D\x0A\x00\x0D\x0A\x51\x55\x49\x54\x0A" *)
PP2_SIG == <<13, 10, 13, 10, 0, 13, 10, 81, 85, 73, 84, 10>>
(* "PROXY" *)
PP1_SIG == <<80, 82, 79, 88, 89>>

(* ---------------------------------------------------------------------- *)
(* Bytes, words and memory                                                 *)
(* ---------------------------------------------------------------------- *)
Byte == 0..255

Xor4 ==
    [a \in 0..15 |-> [b \in 0..15 |->
        ((a + b) % 2)
        + 2 * (((a \div 2) + (b \div 2)) % 2)
        + 4 * (((a \div 4) + (b \div 4)) % 2)
        + 8 * (((a \div 8) + (b \div 8)) % 2)]]

Xor8(a, b) == 16 * Xor4[a \div 16][b \div 16] + Xor4[a % 16][b % 16]

Zeros(n) == [i \in 1..n |-> 0]

(* n bytes of memory starting at 0-based offset off of the allocation buf; *)
(* a byte outside the allocation reads as junk.                            *)
Mem(buf, off, n, junk) ==
    [i \in 1..n |-> IF off + i <= Len(buf) THEN buf[off + i] ELSE junk]

(* memcpy(dst + off, src, Len(src)) inside the allocation dst *)
Poke(dst, off, src) ==
    [i \in 1..Len(dst) |->
        IF i > off /\ i <= off + Len(src) THEN src[i - off] ELSE dst[i]]

SeqMin(a, b) == IF a < b THEN a ELSE b

(* the C string held by a char array: the bytes before the first NUL *)
StrLen(arr) ==
    LET nuls == {i \in 1..Len(arr) : arr[i] = 0}
    IN  IF nuls = {} THEN Len(arr)
        ELSE (CHOOSE i \in nuls : \A j \in nuls : i <= j) - 1

CStr(arr) == SubSeq(arr, 1, StrLen(arr))

(* a C string stored in a zeroed char array of n bytes *)
InArray(str, n) == [i \in 1..n |-> IF i <= Len(str) THEN str[i] ELSE 0]

(* ---------------------------------------------------------------------- *)
(* CRC32c                                                                  *)
(* ---------------------------------------------------------------------- *)
crctable == <<
    <<0,0,0,0>>, <<3,131,107,242>>, <<247,112,59,225>>, <<244,243,80,19>>,
    <<31,151,154,199>>, <<28,20,241,53>>, <<232,231,161,38>>, <<235,100,202,212>>,
    <<207,88,217,138>>, <<204,219,178,120>>, <<56,40,226,107>>, <<59,171,137,153>>,
    <<208,207,67,77>>, <<211,76,40,191>>, <<39,191,120,172>>, <<36,60,19,94>>,
    <<111,199,94,16>>, <<108,68,53,226>>, <<152,183,101,241>>, <<155,52,14,3>>,
    <<112,80,196,215>>, <<115,211,175,37>>, <<135,32,255,54>>, <<132,163,148,196>>,
    <<160,159,135,154>>, <<163,28,236,104>>, <<87,239,188,123>>, <<84,108,215,137>>,
    <<191,8,29,93>>, <<188,139,118,175>>, <<72,120,38,188>>, <<75,251,77,78>>,
    <<222,142,189,32>>, <<221,13,214,210>>, <<41,254,134,193>>, <<42,125,237,51>>,
    <<193,25,39,231>>, <<194,154,76,21>>, <<54,105,28,6>>, <<53,234,119,244>>,
    <<17,214,100,170>>, <<18,85,15,88>>, <<230,166,95,75>>, <<229,37,52,185>>,
    <<14,65,254,109>>, <<13,194,149,159>>, <<249,49,197,140>>, <<250,178,174,126>>,
    <<177,73,227,48>>, <<178,202,136,194>>, <<70,57,216,209>>, <<69,186,179,35>>,
    <<174,222,121,247>>, <<173,93,18,5>>, <<89,174,66,22>>, <<90,45,41,228>>,
    <<126,17,58,186>>, <<125,146,81,72>>, <<137,97,1,91>>, <<138,226,106,169>>,
    <<97,134,160,125>>, <<98,5,203,143>>, <<150,246,155,156>>, <<149,117,240,110>>,
    <<188,29,123,65>>, <<191,158,16,179>>, <<75,109,64,160>>, <<72,238,43,82>>,
    <<163,138,225,134>>, <<160,9,138,116>>, <<84,250,218,103>>, <<87,121,177,149>>,
    <<115,69,162,203>>, <<112,198,201,57>>, <<132,53,153,42>>, <<135,182,242,216>>,
    <<108,210,56,12>>, <<111,81,83,254>>, <<155,162,3,237>>, <<152,33,104,31>>,
    <<211,218,37,81>>, <<208,89,78,163>>, <<36,170,30,176>>, <<39,41,117,66>>,
    <<204,77,191,150>>, <<207,206,212,100>>, <<59,61,132,119>>, <<56,190,239,133>>,
    <<28,130,252,219>>, <<31,1,151,41>>, <<235,242,199,58>>, <<232,113,172,200>>,
    <<3,21,102,28>>, <<0,150,13,238>>, <<244,101,93,253>>, <<247,230,54,15>>,
    <<98,147,198,97>>, <<97,16,173,147>>, <<149,227,253,128>>, <<150,96,150,114>>,
    <<125,4,92,166>>, <<126,135,55,84>>, <<138,116,103,71>>, <<137,247,12,181>>,
    <<173,203,31,235>>, <<174,72,116,25>>, <<90,187,36,10>>, <<89,56,79,248>>,
    <<178,92,133,44>>, <<177,223,238,222>>, <<69,44,190,205>>, <<70,175,213,63>>,
    <<13,84,152,113>>, <<14,215,243,131>>, <<250,36,163,144>>, <<249,167,200,98>>,
    <<18,195,2,182>>, <<17,64,105,68>>, <<229,179,57,87>>, <<230,48,82,165>>,
    <<194,12,65,251>>, <<193,143,42,9>>, <<53,124,122,26>>, <<54,255,17,232>>,
    <<221,155,219,60>>, <<222,24,176,206>>, <<42,235,224,221>>, <<41,104,139,47>>,
    <<120,59,246,130>>, <<123,184,157,112>>, <<143,75,205,99>>, <<140,200,166,145>>,
    <<103,172,108,69>>, <<100,47,7,183>>, <<144,220,87,164>>, <<147,95,60,86>>,
    <<183,99,47,8>>, <<180,224,68,250>>, <<64,19,20,233>>, <<67,144,127,27>>,
    <<168,244,181,207>>, <<171,119,222,61>>, <<95,132,142,46>>, <<92,7,229,220>>,
    <<23,252,168,146>>, <<20,127,195,96>>, <<224,140,147,115>>, <<227,15,248,129>>,
    <<8,107,50,85>>, <<11,232,89,167>>, <<255,27,9,180>>, <<252,152,98,70>>,
    <<216,164,113,24>>, <<219,39,26,234>>, <<47,212,74,249>>, <<44,87,33,11>>,
    <<199,51,235,223>>, <<196,176,128,45>>, <<48,67,208,62>>, <<51,192,187,204>>,
    <<166,181,75,162>>, <<165,54,32,80>>, <<81,197,112,67>>, <<82,70,27,177>>,
    <<185,34,209,101>>, <<186,161,186,151>>, <<78,82,234,132>>, <<77,209,129,118>>,
    <<105,237,146,40>>, <<106,110,249,218>>, <<158,157,169,201>>, <<157,30,194,59>>,
    <<118,122,8,239>>, <<117,249,99,29>>, <<129,10,51,14>>, <<130,137,88,252>>,
    <<201,114,21,178>>, <<202,241,126,64>>, <<62,2,46,83>>, <<61,129,69,161>>,
    <<214,229,143,117>>, <<213,102,228,135>>, <<33,149,180,148>>, <<34,22,223,102>>,
    <<6,42,204,56>>, <<5,169,167,202>>, <<241,90,247,217>>, <<242,217,156,43>>,
    <<25,189,86,255>>, <<26,62,61,13>>, <<238,205,109,30>>, <<237,78,6,236>>,
    <<196,38,141,195>>, <<199,165,230,49>>, <<51,86,182,34>>, <<48,213,221,208>>,
    <<219,177,23,4>>, <<216,50,124,246>>, <<44,193,44,229>>, <<47,66,71,23>>,
    <<11,126,84,73>>, <<8,253,63,187>>, <<252,14,111,168>>, <<255,141,4,90>>,
    <<20,233,206,142>>, <<23,106,165,124>>, <<227,153,245,111>>, <<224,26,158,157>>,
    <<171,225,211,211>>, <<168,98,184,33>>, <<92,145,232,50>>, <<95,18,131,192>>,
    <<180,118,73,20>>, <<183,245,34,230>>, <<67,6,114,245>>, <<64,133,25,7>>,
    <<100,185,10,89>>, <<103,58,97,171>>, <<147,201,49,184>>, <<144,74,90,74>>,
    <<123,46,144,158>>, <<120,173,251,108>>, <<140,94,171,127>>, <<143,221,192,141>>,
    <<26,168,48,227>>, <<25,43,91,17>>, <<237,216,11,2>>, <<238,91,96,240>>,
    <<5,63,170,36>>, <<6,188,193,214>>, <<242,79,145,197>>, <<241,204,250,55>>,
    <<213,240,233,105>>, <<214,115,130,155>>, <<34,128,210,136>>, <<33,3,185,122>>,
    <<202,103,115,174>>, <<201,228,24,92>>, <<61,23,72,79>>, <<62,148,35,189>>,
    <<117,111,110,243>>, <<118,236,5,1>>, <<130,31,85,18>>, <<129,156,62,224>>,
    <<106,248,244,52>>, <<105,123,159,198>>, <<157,136,207,213>>, <<158,11,164,39>>,
    <<186,55,183,121>>, <<185,180,220,139>>, <<77,71,140,152>>, <<78,196,231,106>>,
    <<165,160,45,190>>, <<166,35,70,76>>, <<82,208,22,95>>, <<81,83,125,173>>
>>

crc32c_step(crc, b) ==
    LET t == crctable[Xor8(crc[1], b) + 1]
    IN  <<Xor8(crc[2], t[1]), Xor8(crc[3], t[2]), Xor8(crc[4], t[3]), t[4]>>

(* the while loop over buf[lo..hi], split in halves (the left half is      *)
(* evaluated before the right one starts)                                  *)
RECURSIVE crc32c_loop(_, _, _, _)
crc32c_loop(buf, lo, hi, crc) ==
    IF lo > hi THEN crc
    ELSE IF lo = hi THEN crc32c_step(crc, buf[lo])
    ELSE LET mid == (lo + hi) \div 2
             left == crc32c_loop(buf, lo, mid, crc)
         IN  IF left[1] >= 0 THEN crc32c_loop(buf, mid + 1, hi, left) ELSE left

crc32c(buf, len) ==
    LET crc == crc32c_loop(buf, 1, len, <<255, 255, 255, 255>>)
    IN  <<255 - crc[1], 255 - crc[2], 255 - crc[3], 255 - crc[4]>>

(* ---------------------------------------------------------------------- *)
(* Text conversions of the C library, as the codec uses them               *)
(* ---------------------------------------------------------------------- *)
IsDigit(c) == c >= 48 /\ c <= 57
IsXDigit(c) == IsDigit(c) \/ (c >= 97 /\ c <= 102) \/ (c >= 65 /\ c <= 70)
XDigitVal(c) == IF IsDigit(c) THEN c - 48 ELSE IF c >= 97 THEN c - 87 ELSE c - 55
IsSpace(c) == c = 32 \/ (c >= 9 /\ c <= 13)

RECURSIVE Dec(_)
Dec(n) == IF n < 10 THEN <<48 + n>> ELSE Dec(n \div 10) \o <<48 + (n % 10)>>

HexDigit(d) == IF d < 10 THEN 48 + d ELSE 87 + d

RECURSIVE Hex(_)
Hex(n) == IF n < 16 THEN <<HexDigit(n)>> ELSE Hex(n \div 16) \o <<HexDigit(n % 16)>>

(* inet_pton(AF_INET, ...): dotted quad, four decimal octets, no leading zero *)
RECURSIVE inet_pton4_loop(_, _, _, _, _)
inet_pton4_loop(text, i, octs, saw_digit, octets) ==
    IF i > Len(text)
    THEN [ok |-> octets = 4, addr |-> IF octets = 4 THEN octs ELSE Zeros(4)]
    ELSE LET ch == text[i]
             cur == octs[Len(octs)]
             new == cur * 10 + (ch - 48)
         IN  IF IsDigit(ch)
             THEN IF (saw_digit /\ cur = 0) \/ new > 255
                     \/ (~saw_digit /\ octets + 1 > 4)
                  THEN [ok |-> FALSE, addr |-> Zeros(4)]
                  ELSE inet_pton4_loop(text, i + 1,
                           [octs EXCEPT ![Len(octs)] = new], TRUE,
                           IF saw_digit THEN octets ELSE octets + 1)
             ELSE IF ch = 46 /\ saw_digit
             THEN IF octets = 4
                  THEN [ok |-> FALSE, addr |-> Zeros(4)]
                  ELSE inet_pton4_loop(text, i + 1, Append(octs, 0), FALSE, octets)
             ELSE [ok |-> FALSE, addr |-> Zeros(4)]

inet_pton4(text) == inet_pton4_loop(text, 1, <<0>>, FALSE, 0)

inet_ntop4(a) ==
    Dec(a[1]) \o <<46>> \o Dec(a[2]) \o <<46>> \o Dec(a[3]) \o <<46>> \o Dec(a[4])

(* inet_pton(AF_INET6, ...): st.out are the bytes stored so far, st.colonp *)
(* the position in them of "::" (-1: none seen).                           *)
RECURSIVE inet_pton6_loop(_, _, _)
inet_pton6_loop(text, i, st) ==
    LET fail == [ok |-> FALSE, addr |-> Zeros(16)]
        stored == st.out \o <<st.val \div 256, st.val % 256>>
        finish(out, colonp) ==
            IF colonp # -1
            THEN IF Len(out) = 16 THEN fail
                 ELSE [ok |-> TRUE,
                       addr |-> SubSeq(out, 1, colonp) \o Zeros(16 - Len(out))
                                \o SubSeq(out, colonp + 1, Len(out))]
            ELSE IF Len(out) # 16 THEN fail ELSE [ok |-> TRUE, addr |-> out]
    IN  IF i > Len(text)
        THEN IF st.saw_xdigit
             THEN IF Len(st.out) + 2 > 16 THEN fail ELSE finish(stored, st.colonp)
             ELSE finish(st.out, st.colonp)
        ELSE LET ch == text[i]
             IN  IF IsXDigit(ch)
                 THEN IF st.ndig + 1 > 4 THEN fail
                      ELSE inet_pton6_loop(text, i + 1,
                               [st EXCEPT !.val = st.val * 16 + XDigitVal(ch),
                                          !.ndig = st.ndig + 1,
                                          !.saw_xdigit = TRUE])
                 ELSE IF ch = 58
                 THEN IF ~st.saw_xdigit
                      THEN IF st.colonp # -1 THEN fail
                           ELSE inet_pton6_loop(text, i + 1,
                                    [st EXCEPT !.colonp = Len(st.out), !.curtok = i + 1])
                      ELSE IF i + 1 > Len(text) \/ Len(st.out) + 2 > 16 THEN fail
                      ELSE inet_pton6_loop(text, i + 1,
                               [st EXCEPT !.out = stored, !.val = 0, !.ndig = 0,
                                          !.saw_xdigit = FALSE, !.curtok = i + 1])
                 ELSE IF ch = 46 /\ Len(st.out) + 4 <= 16
                         /\ inet_pton4(SubSeq(text, st.curtok, Len(text))).ok
                 THEN finish(st.out \o inet_pton4(SubSeq(text, st.curtok, Len(text))).addr,
                             st.colonp)
                 ELSE fail

inet_pton6(text) ==
    LET st0 == [out |-> <<>>, colonp |-> -1, curtok |-> 1, val |-> 0, ndig |-> 0,
                saw_xdigit |-> FALSE]
    IN  IF Len(text) >= 1 /\ text[1] = 58
        THEN IF Len(text) < 2 \/ text[2] # 58
             THEN [ok |-> FALSE, addr |-> Zeros(16)]
             ELSE inet_pton6_loop(text, 2, [st0 EXCEPT !.curtok = 2])
        ELSE inet_pton6_loop(text, 1, st0)

(* inet_ntop(AF_INET6, ...): the first longest run of two or more zero     *)
(* words becomes "::"                                                      *)
RECURSIVE ZeroRun(_, _)
ZeroRun(words, i) == IF i > 8 \/ words[i] # 0 THEN 0 ELSE 1 + ZeroRun(words, i + 1)

inet_ntop6(a) ==
    LET words == [i \in 1..8 |-> a[2 * i - 1] * 256 + a[2 * i]]
        starts == {i \in 1..8 : ZeroRun(words, i) >= 2
                                /\ (i = 1 \/ words[i - 1] # 0)}
        longest == {i \in starts : \A j \in starts : ZeroRun(words, j) <= ZeroRun(words, i)}
        base == IF starts = {} THEN 0
                ELSE CHOOSE i \in longest : \A j \in longest : i <= j
        blen == IF base = 0 THEN 0 ELSE ZeroRun(words, base)
        v4tail == base = 1 /\ (blen = 6 \/ (blen = 5 /\ words[6] = 65535))
        piece(i) ==
            IF base # 0 /\ i >= base /\ i < base + blen
            THEN IF i = base THEN <<58>> ELSE <<>>
            ELSE (IF i # 1 THEN <<58>> ELSE <<>>)
                 \o (IF i = 7 /\ v4tail THEN inet_ntop4(SubSeq(a, 13, 16))
                     ELSE IF i = 8 /\ v4tail THEN <<>>
                     ELSE Hex(words[i]))
        body == piece(1) \o piece(2) \o piece(3) \o piece(4)
                \o piece(5) \o piece(6) \o piece(7)
                \o (IF v4tail THEN <<>> ELSE piece(8))
    IN  body \o (IF base # 0 /\ base + blen = 9 THEN <<58>> ELSE <<>>)

(* strtoul(value, NULL, 10) on the C string str; st is "ws", "digits" *)
RECURSIVE strtoul_digits(_, _, _)
strtoul_digits(str, i, acc) ==
    IF i > Len(str) \/ ~IsDigit(str[i]) THEN acc
    ELSE strtoul_digits(str, i + 1,
             IF acc * 10 + (str[i] - 48) > 100000 THEN 100000
             ELSE acc * 10 + (str[i] - 48))

RECURSIVE SkipSpace(_, _)
SkipSpace(str, i) ==
    IF i <= Len(str) /\ IsSpace(str[i]) THEN SkipSpace(str, i + 1) ELSE i

(* parse_port: 0 (failure) or 1 with the port.  A "-" sign makes strtoul   *)
(* return the negation as an unsigned long, which is above UINT16_MAX      *)
(* unless the digits are zero.                                             *)
parse_port(value) ==
    LET i == SkipSpace(value, 1)
        neg == i <= Len(value) /\ value[i] = 45
        j == IF i <= Len(value) /\ (value[i] = 45 \/ value[i] = 43) THEN i + 1 ELSE i
        port == strtoul_digits(value, j, 0)
    IN  IF port = 0 \/ port > 65535 \/ neg
        THEN [rc |-> 0, usport |-> 0]
        ELSE [rc |-> 1, usport |-> port]

(* ---------------------------------------------------------------------- *)
(* pp_info_t and the TLV array                                             *)
(* ---------------------------------------------------------------------- *)
(* memset of the whole pp_info_t to zero *)
ZeroInfo ==
    [address_family |-> 0, transport_protocol |-> 0,
     src_addr |-> Zeros(ADDR_SIZE), dst_addr |-> Zeros(ADDR_SIZE),
     src_port |-> 0, dst_port |-> 0,
     local |-> 0, crc32c |-> 0, alignment_power |-> 0,
     ssl |-> 0, cert_in_connection |-> 0, cert_in_session |-> 0, cert_verified |-> 0,
     tlvs |-> <<>>]

(* value holds the length bytes memcpy takes from the caller's pointer *)
tlv_new(type, length, value) ==
    [type |-> type, length_hi |-> length \div 256, length_lo |-> length % 256,
     value |-> value]

TlvLen(tlv) == tlv.length_hi * 256 + tlv.length_lo

(* the allocation of a TLV as bytes: type, length_hi, length_lo, value[] *)
TlvBytes(tlv) == <<tlv.type, tlv.length_hi, tlv.length_lo>> \o tlv.value

tlv_array_append_tlv(tlvs, tlv) == Append(tlvs, tlv)

tlv_array_append_tlv_new(pi, type, length, value) ==
    [rc |-> 1,
     pp_info |-> [pi EXCEPT !.tlvs = tlv_array_append_tlv(pi.tlvs, tlv_new(type, length, value))]]

(* value holds length + 1 bytes read from the source; the last is          *)
(* overwritten with NUL                                                    *)
tlv_array_append_tlv_new_usascii(pi, type, length, value) ==
    LET n == (length + 1) % 65536
        tlv == tlv_new(type, n, value)
    IN  [rc |-> 1,
         pp_info |-> [pi EXCEPT !.tlvs = tlv_array_append_tlv(pi.tlvs,
                          [tlv EXCEPT !.value = Poke(value, length, <<0>>)])]]

pp_info_add_alpn(pi, length, alpn) ==
    tlv_array_append_tlv_new(pi, PP2_TYPE_ALPN, length, alpn)

pp_info_add_authority(pi, length, host_name) ==
    tlv_array_append_tlv_new(pi, PP2_TYPE_AUTHORITY, length, host_name)

pp_info_add_unique_id(pi, length, unique_id) ==
    IF length > 128 THEN [rc |-> 0, pp_info |-> pi]
    ELSE tlv_array_append_tlv_new(pi, PP2_TYPE_UNIQUE_ID, length, unique_id)

(* st = [value, index]; nothing is written for an empty or NULL sub-field *)
pp_info_add_subtype_ssl(st, subtype_ssl, length, is_null, subtype_ssl_value) ==
    IF length = 0 \/ is_null THEN st
    ELSE [value |-> Poke(st.value, st.index,
                        <<subtype_ssl, length \div 256, length % 256>>
                        \o Mem(subtype_ssl_value, 0, length, 0)),
          index |-> (st.index + 3 + length) % 65536]

(* version, cipher, sig_alg, key_alg: C strings (NULL is passed as the     *)
(* empty string, which the code treats alike); cn_null: cn is NULL; heap:  *)
(* the byte a fresh malloc block holds.                                    *)
pp_info_add_ssl(pi, version, cipher, sig_alg, key_alg, cn_null, cn, cn_value_len, heap) ==
    LET client == (pi.ssl + 2 * pi.cert_in_connection + 4 * pi.cert_in_connection) % 256
        verify == IF pi.cert_verified = 0 THEN <<1, 0, 0, 0>> ELSE <<0, 0, 0, 0>>
        length == 1 + 4
                  + sizeof_pp2_tlv_t + Len(version)
                  + sizeof_pp2_tlv_t + Len(cipher)
                  + sizeof_pp2_tlv_t + Len(sig_alg)
                  + sizeof_pp2_tlv_t + Len(key_alg)
                  + sizeof_pp2_tlv_t + cn_value_len
        s0 == [value |-> Poke([i \in 1..length |-> heap], 0, <<client>> \o verify),
               index |-> 5]
        s1 == pp_info_add_subtype_ssl(s0, PP2_SUBTYPE_SSL_VERSION, Len(version), FALSE, version)
        s2 == pp_info_add_subtype_ssl(s1, PP2_SUBTYPE_SSL_CIPHER, Len(cipher), FALSE, cipher)
        s3 == pp_info_add_subtype_ssl(s2, PP2_SUBTYPE_SSL_SIG_ALG, Len(sig_alg), FALSE, sig_alg)
        s4 == pp_info_add_subtype_ssl(s3, PP2_SUBTYPE_SSL_KEY_ALG, Len(key_alg), FALSE, key_alg)
        s5 == pp_info_add_subtype_ssl(s4, PP2_SUBTYPE_SSL_CN, cn_value_len, cn_null, cn)
    IN  IF length > 65535 THEN [rc |-> 0, pp_info |-> pi]
        ELSE tlv_array_append_tlv_new(pi, PP2_TYPE_SSL, length, s5.value)

pp_info_add_netns(pi, netns) ==
    tlv_array_append_tlv_new(pi, PP2_TYPE_NETNS, Len(netns) % 65536, 
                             Mem(netns, 0, Len(netns) % 65536, 0))

pp_info_add_aws_vpce_id(pi, vpce_id) ==
    LET length == (1 + (Len(vpce_id) % 65536)) % 65536
    IN  tlv_array_append_tlv_new(pi, PP2_TYPE_AWS, length,
            Mem(<<PP2_SUBTYPE_AWS_VPCE_ID>> \o vpce_id, 0, length, 0))

(* linkid: the four bytes of the uint32_t as laid out in memory *)
pp_info_add_azure_linkid(pi, linkid) ==
    tlv_array_append_tlv_new(pi, PP2_TYPE_AZURE, 5,
                             <<PP2_SUBTYPE_AZURE_PRIVATEENDPOINT_LINKID>> \o linkid)

tlv_array_clear(tlvs) == <<>>

pp_info_clear(pi) == ZeroInfo

(* The tlv_array_t of one pp_info_t with the heap blocks behind it:        *)
(*   len, size   the fields of the tlv_array_t                              *)
(*   slots       the number of pointers the block tlvs points to holds,     *)
(*               0 when tlvs is NULL                                        *)
(*   stored      the TLV records tlvs[0 .. len - 1] point to                *)
(*   live        the TLV records malloc has returned and free has not seen  *)
(*   next        the number of TLV records allocated since the heap last    *)
(*               held none                                                  *)
(*   oob         a store went to a slot outside the block                   *)
NoHeap ==
    [len |-> 0, size |-> 0, slots |-> 0, stored |-> <<>>, live |-> {}, next |-> 0,
     oob |-> FALSE]

(* tlv_array->len++; tlv_array->tlvs[tlv_array->len - 1] = tlv *)
tlv_array_store(h, tlv) ==
    [h EXCEPT !.len = h.len + 1, !.stored = Append(h.stored, tlv),
              !.oob = h.oob \/ h.len + 1 > h.slots]

(* tlv_array_append_tlv on the heap; alloc_ok: whether the malloc or the   *)
(* realloc the call makes succeeds.  [rc, heap]                            *)
tlv_array_append_tlv_heap(h, tlv, alloc_ok) ==
    IF h.slots = 0
    THEN IF alloc_ok
         THEN [rc |-> 1,
               heap |-> tlv_array_store([h EXCEPT !.len = 0, !.size = 10, !.slots = 10], tlv)]
         ELSE [rc |-> 0, heap |-> [h EXCEPT !.len = 0, !.size = 10]]
    ELSE IF h.size = h.len
    THEN IF alloc_ok
         THEN [rc |-> 1,
               heap |-> tlv_array_store([h EXCEPT !.size = h.size + 5, !.slots = h.size + 5],
                                        tlv)]
         ELSE [rc |-> 0, heap |-> [h EXCEPT !.size = h.size + 5]]
    ELSE [rc |-> 1, heap |-> tlv_array_store(h, tlv)]

(* tlv_array_append_tlv_new on the heap; tlv_ok: whether the malloc of     *)
(* tlv_new succeeds.  [rc, heap]                                           *)
tlv_array_append_tlv_new_heap(h, tlv_ok, alloc_ok) ==
    IF ~tlv_ok THEN [rc |-> 0, heap |-> h]
    ELSE tlv_array_append_tlv_heap([h EXCEPT !.next = h.next + 1,
                                             !.live = h.live \cup {h.next + 1}],
                                   h.next + 1, alloc_ok)

(* tlv_array_clear on the heap: the records tlvs[0 .. len - 1] and the     *)
(* block are freed                                                         *)
tlv_array_clear_heap(h) ==
    [h EXCEPT !.live = h.live \ {h.stored[i] : i \in 1..Len(h.stored)},
              !.next = IF h.live \subseteq {h.stored[i] : i \in 1..Len(h.stored)}
                       THEN 0 ELSE h.next,
              !.len = 0, !.size = 0, !.slots = 0, !.stored = <<>>]

(* the memset of pp_parse_hdr over the pp_info_t: the fields are zeroed,  *)
(* nothing is freed                                                        *)
pp_info_memset_heap(h) ==
    [h EXCEPT !.len = 0, !.size = 0, !.slots = 0, !.stored = <<>>]

(* the n appends of a parse that stores n TLVs, no allocation failing *)
RECURSIVE pp_parse_hdr_heap(_, _)
pp_parse_hdr_heap(h, n) ==
    IF n = 0 THEN h
    ELSE pp_parse_hdr_heap(tlv_array_append_tlv_new_heap(h, TRUE, TRUE).heap, n - 1)

(* the first TLV of the type; with a subtype, its value past the subtype   *)
(* byte when that byte matches                                             *)
RECURSIVE pp_info_get_tlv_value_from(_, _, _, _)
pp_info_get_tlv_value_from(tlvs, i, type, subtype) ==
    IF i > Len(tlvs) THEN [null |-> TRUE, length |-> 0, value |-> <<>>]
    ELSE IF tlvs[i].type = type
    THEN IF subtype > 0
         THEN IF Mem(tlvs[i].value, 0, 1, 0)[1] = subtype
              THEN [null |-> FALSE, length |-> (TlvLen(tlvs[i]) - 1) % 65536,
                    value |-> SubSeq(tlvs[i].value, 2, Len(tlvs[i].value))]
              ELSE [null |-> TRUE, length |-> TlvLen(tlvs[i]), value |-> <<>>]
         ELSE [null |-> FALSE, length |-> TlvLen(tlvs[i]), value |-> tlvs[i].value]
    ELSE pp_info_get_tlv_value_from(tlvs, i + 1, type, subtype)

(* pp_info_get_tlv_value searching the array from its end *)
pp_info_get_tlv_value_last(pi, type, subtype) ==
    pp_info_get_tlv_value_from([i \in 1..Len(pi.tlvs) |-> pi.tlvs[Len(pi.tlvs) + 1 - i]],
                               1, type, subtype)

pp_info_get_tlv_value(pi, type, subtype) ==
    pp_info_get_tlv_value_from(pi.tlvs, 1, type, subtype)

(* the (type, subtype) each public getter passes: pp_info_get_alpn,        *)
(* _authority, _crc32c, _unique_id, _ssl_version, _ssl_cn, _ssl_cipher,    *)
(* _ssl_sig_alg, _ssl_key_alg, _netns, _aws_vpce_id, _azure_linkid         *)
Getters ==
    {<<PP2_TYPE_ALPN, 0>>, <<PP2_TYPE_AUTHORITY, 0>>, <<PP2_TYPE_CRC32C, 0>>,
     <<PP2_TYPE_UNIQUE_ID, 0>>, <<PP2_SUBTYPE_SSL_VERSION, 0>>, <<PP2_SUBTYPE_SSL_CN, 0>>,
     <<PP2_SUBTYPE_SSL_CIPHER, 0>>, <<PP2_SUBTYPE_SSL_SIG_ALG, 0>>,
     <<PP2_SUBTYPE_SSL_KEY_ALG, 0>>, <<PP2_TYPE_NETNS, 0>>,
     <<PP2_TYPE_AWS, PP2_SUBTYPE_AWS_VPCE_ID>>,
     <<PP2_TYPE_AZURE, PP2_SUBTYPE_AZURE_PRIVATEENDPOINT_LINKID>>}

(* ---------------------------------------------------------------------- *)
(* pp2_create_hdr                                                          *)
(* ---------------------------------------------------------------------- *)
htons(v) == <<v \div 256, v % 256>>

RECURSIVE TlvsTotalLen(_, _, _)
TlvsTotalLen(tlvs, i, len) ==
    IF i > Len(tlvs) THEN len
    ELSE TlvsTotalLen(tlvs, i + 1,
             (len + ((sizeof_pp2_tlv_t + TlvLen(tlvs[i])) % 65536)) % 65536)

RECURSIVE TlvsWire(_, _, _)
TlvsWire(tlvs, i, heap) ==
    IF i > Len(tlvs) THEN <<>>
    ELSE Mem(TlvBytes(tlvs[i]), 0, (sizeof_pp2_tlv_t + TlvLen(tlvs[i])) % 65536, heap)
         \o TlvsWire(tlvs, i + 1, heap)

(* the address block, or the error of the first address that does not      *)
(* convert                                                                 *)
pp2_create_addr(pi) ==
    LET s4 == inet_pton4(CStr(pi.src_addr))
        d4 == inet_pton4(CStr(pi.dst_addr))
        s6 == inet_pton6(CStr(pi.src_addr))
        d6 == inet_pton6(CStr(pi.dst_addr))
        ports == htons(pi.src_port) \o htons(pi.dst_port)
    IN  IF pi.address_family = ADDR_FAMILY_UNSPEC
        THEN IF pi.local = 0
             THEN [error |-> -ERR_PP2_CMD, ver_cmd |-> 32, addr |-> <<>>]
             ELSE [error |-> ERR_NULL, ver_cmd |-> 32, addr |-> <<>>]
        ELSE IF pi.address_family = ADDR_FAMILY_INET
        THEN IF ~s4.ok THEN [error |-> -ERR_PP2_IPV4_SRC_IP, ver_cmd |-> 33, addr |-> <<>>]
             ELSE IF ~d4.ok THEN [error |-> -ERR_PP2_IPV4_DST_IP, ver_cmd |-> 33, addr |-> <<>>]
             ELSE [error |-> ERR_NULL, ver_cmd |-> 33, addr |-> s4.addr \o d4.addr \o ports]
        ELSE IF pi.address_family = ADDR_FAMILY_INET6
        THEN IF ~s6.ok THEN [error |-> -ERR_PP2_IPV6_SRC_IP, ver_cmd |-> 33, addr |-> <<>>]
             ELSE IF ~d6.ok THEN [error |-> -ERR_PP2_IPV6_DST_IP, ver_cmd |-> 33, addr |-> <<>>]
             ELSE [error |-> ERR_NULL, ver_cmd |-> 33, addr |-> s6.addr \o d6.addr \o ports]
        ELSE IF pi.address_family = ADDR_FAMILY_UNIX
        THEN [error |-> ERR_NULL, ver_cmd |-> 33, addr |-> pi.src_addr \o pi.dst_addr]
        ELSE [error |-> -ERR_PP2_ADDR_FAMILY, ver_cmd |-> 33, addr |-> <<>>]

(* the total length and the padding: [len, pp2_hdr_len, padding_bytes] *)
pp2_create_len(pi, proxy_addr_len) ==
    LET len0 == TlvsTotalLen(pi.tlvs, 1, proxy_addr_len)
        len1 == IF pi.crc32c # 0 THEN (len0 + sizeof_pp2_tlv_t + 4) % 65536 ELSE len0
        hdr_len == (HDR_SIZE + len1) % 65536
        alignment == (2 ^ pi.alignment_power) % 65536
        padded0 == ((hdr_len \div alignment + 1) * alignment) % 65536
        padded == IF padded0 - hdr_len < sizeof_pp2_tlv_t
                  THEN (padded0 + alignment) % 65536 ELSE padded0
    IN  IF pi.alignment_power > 1 /\ hdr_len % alignment # 0
        THEN [len |-> (padded - HDR_SIZE) % 65536,
              pp2_hdr_len |-> padded,
              padding_bytes |-> (padded - HDR_SIZE - len1 - sizeof_pp2_tlv_t) % 65536]
        ELSE [len |-> len1, pp2_hdr_len |-> hdr_len, padding_bytes |-> 0]

(* The stores of pp2_create_hdr once the address block a and the lengths  *)
(* l are known.  [error, pp_hdr_len, hdr, written]: hdr is the pp_hdr_len  *)
(* bytes of the returned block; written is every byte the function stores  *)
(* from pp2_hdr on, in order, so Len(written) > pp_hdr_len is a store past *)
(* the end of the block; heap: the byte a fresh malloc block holds.        *)
pp2_create_write(pi, heap, a, l) ==
    LET fam == (pi.address_family * 16 + pi.transport_protocol) % 256
        fixed == PP2_SIG \o <<a.ver_cmd, fam>> \o htons(l.len)
        noop == IF pi.alignment_power > 1
                THEN <<PP2_TYPE_NOOP, l.padding_bytes \div 256, l.padding_bytes % 256>>
                     \o Zeros(l.padding_bytes)
                ELSE <<>>
        body == fixed \o a.addr \o TlvsWire(pi.tlvs, 1, heap) \o noop
                \o (IF pi.crc32c # 0 THEN <<PP2_TYPE_CRC32C, 0, 4>> ELSE <<>>)
        crc32c_calculated ==
            crc32c(Mem(body \o Zeros(4), 0, l.pp2_hdr_len, heap), l.pp2_hdr_len)
    IN  IF pi.crc32c # 0 THEN body \o crc32c_calculated ELSE body

pp2_create_ret(pp2_hdr_len, written, heap) ==
    [error |-> ERR_NULL, pp_hdr_len |-> pp2_hdr_len,
     hdr |-> Mem(written, 0, pp2_hdr_len, heap), written |-> written]

pp2_create_sized(pi, heap, a, l) ==
    pp2_create_ret(l.pp2_hdr_len, pp2_create_write(pi, heap, a, l), heap)

pp2_create_from(pi, heap, a) ==
    IF a.error # ERR_NULL
    THEN [error |-> a.error, pp_hdr_len |-> 0, hdr |-> <<>>, written |-> <<>>]
    ELSE IF pi.transport_protocol > TRANSPORT_PROTOCOL_DGRAM
    THEN [error |-> -ERR_PP2_TRANSPORT_PROTOCOL, pp_hdr_len |-> 0, hdr |-> <<>>,
          written |-> <<>>]
    ELSE pp2_create_sized(pi, heap, a, pp2_create_len(pi, Len(a.addr)))

pp2_create_hdr(pi, heap) == pp2_create_from(pi, heap, pp2_create_addr(pi))

(* ---------------------------------------------------------------------- *)
(* pp2_parse_hdr                                                           *)
(* ---------------------------------------------------------------------- *)
Max(a, b) == IF a > b THEN a ELSE b

(* The walk over the sub-TLVs of one PP2_TYPE_SSL TLV.  base: offset of    *)
(* pp2_tlv_ssl->sub_tlv in buf; st = [pi, sub_off, found, rd_end, rc, ub]; *)
(* rc = 1 while no return statement was taken.  A sub-TLV offset that      *)
(* leaves 16 bits ends the walk with ub set: the copy before it read tens  *)
(* of kilobytes outside the buffer.                                        *)
RECURSIVE pp2_parse_ssl_loop(_, _, _, _, _)
pp2_parse_ssl_loop(buf, base, pp2_tlvs_ssl_len, junk, st) ==
    IF ~(st.sub_off < pp2_tlvs_ssl_len) THEN st
    ELSE LET at == base + st.sub_off
             h == Mem(buf, at, sizeof_pp2_tlv_t, junk)
             pp2_sub_tlv_ssl_len == h[2] * 256 + h[3]
             next == st.sub_off + sizeof_pp2_tlv_t + pp2_sub_tlv_ssl_len
             usascii == tlv_array_append_tlv_new_usascii(st.pi, h[1], pp2_sub_tlv_ssl_len,
                            Mem(buf, at + 3, (pp2_sub_tlv_ssl_len + 1) % 65536, junk))
             plain == tlv_array_append_tlv_new(st.pi, h[1], pp2_sub_tlv_ssl_len,
                            Mem(buf, at + 3, pp2_sub_tlv_ssl_len, junk))
             step(pi, rd) ==
                 IF next >= 65536
                 THEN [st EXCEPT !.ub = TRUE,
                                 !.rc = IF next = st.sub_off + 65536 THEN -ERR_HEAP_ALLOC
                                        ELSE -ERR_PP2_TYPE_SSL,
                                 !.rd_end = Max(st.rd_end, rd)]
                 ELSE pp2_parse_ssl_loop(buf, base, pp2_tlvs_ssl_len, junk,
                          [st EXCEPT !.pi = pi, !.sub_off = next,
                                     !.found = st.found \/ h[1] = PP2_SUBTYPE_SSL_VERSION,
                                     !.rd_end = Max(st.rd_end, rd)])
         IN  IF h[1] \in {PP2_SUBTYPE_SSL_VERSION, PP2_SUBTYPE_SSL_CIPHER,
                          PP2_SUBTYPE_SSL_SIG_ALG, PP2_SUBTYPE_SSL_KEY_ALG}
             THEN step(usascii.pp_info, at + 3 + pp2_sub_tlv_ssl_len + 1)
             ELSE IF h[1] = PP2_SUBTYPE_SSL_CN
             THEN step(plain.pp_info, at + 3 + pp2_sub_tlv_ssl_len)
             ELSE [st EXCEPT !.rc = -ERR_PP2_TYPE_SSL, !.rd_end = Max(st.rd_end, at + 3)]

(* case PP2_TYPE_SSL of the switch, for the TLV whose value starts at      *)
(* offset val in buf: [rc, pi, rd_end, ub], rc = 1 for "break"             *)
pp2_parse_ssl(buf, val, pp2_tlv_len, pi, junk) ==
    LET client == Mem(buf, val, 1, junk)[1]
        verify == Mem(buf, val + 1, 4, junk)
        pi1 == [pi EXCEPT !.ssl = client % 2,
                          !.cert_in_connection = (client \div 2) % 2,
                          !.cert_in_session = (client \div 4) % 2,
                          !.cert_verified = IF verify = <<0, 0, 0, 0>> THEN 1 ELSE 0]
        pp2_tlvs_ssl_len == (pp2_tlv_len - 1 - 4) % 65536
        w == pp2_parse_ssl_loop(buf, val + 5, pp2_tlvs_ssl_len, junk,
                 [pi |-> pi1, sub_off |-> 0, found |-> FALSE, rd_end |-> val + 5,
                  rc |-> 1, ub |-> FALSE])
    IN  IF w.rc # 1 THEN [rc |-> w.rc, pi |-> w.pi, rd_end |-> w.rd_end, ub |-> w.ub]
        ELSE IF w.sub_off > pp2_tlvs_ssl_len \/ (pi1.ssl = 1 /\ ~w.found)
        THEN [rc |-> -ERR_PP2_TYPE_SSL, pi |-> w.pi, rd_end |-> w.rd_end, ub |-> FALSE]
        ELSE [rc |-> 1, pi |-> w.pi, rd_end |-> w.rd_end, ub |-> FALSE]

(* One pass of the switch for the TLV at offset off: [rc, pi, buf, rd_end, *)
(* ub], rc = 1 for "break".                                                *)
pp2_parse_tlv(buf, off, type, pp2_tlv_len, len, pi, junk) ==
    LET val == off + sizeof_pp2_tlv_t
        value == Mem(buf, val, pp2_tlv_len, junk)
        out(rc, p, b, rd) == [rc |-> rc, pi |-> p, buf |-> b, rd_end |-> rd, ub |-> FALSE]
        appended == tlv_array_append_tlv_new(pi, type, pp2_tlv_len, value).pp_info
        appended_usascii ==
            tlv_array_append_tlv_new_usascii(pi, type, pp2_tlv_len,
                Mem(buf, val, (pp2_tlv_len + 1) % 65536, junk)).pp_info
        crc32c_chksum == Mem(buf, val, 4, junk)
        zeroed == Poke(buf, val, Zeros(4))
        crc32c_calculated == crc32c(zeroed, HDR_SIZE + len)
        ssl == pp2_parse_ssl(buf, val, pp2_tlv_len, pi, junk)
    IN  IF type = PP2_TYPE_ALPN \/ type = PP2_TYPE_AUTHORITY
        THEN out(1, appended, buf, val + pp2_tlv_len)
        ELSE IF type = PP2_TYPE_CRC32C
        THEN IF pp2_tlv_len # 4 THEN out(-ERR_PP2_TYPE_CRC32C, pi, buf, val)
             ELSE IF crc32c_chksum # crc32c_calculated
             THEN out(-ERR_PP2_TYPE_CRC32C, pi, zeroed, Max(val + 4, HDR_SIZE + len))
             ELSE out(1, [tlv_array_append_tlv_new(pi, type, pp2_tlv_len, crc32c_chksum).pp_info
                             EXCEPT !.crc32c = 1],
                      zeroed, Max(val + 4, HDR_SIZE + len))
        ELSE IF type = PP2_TYPE_NOOP
        THEN out(1, pi, buf, val)
        ELSE IF type = PP2_TYPE_UNIQUE_ID
        THEN IF pp2_tlv_len > 128 THEN out(-ERR_PP2_TYPE_UNIQUE_ID, pi, buf, val)
             ELSE out(1, appended, buf, val + pp2_tlv_len)
        ELSE IF type = PP2_TYPE_SSL
        THEN [rc |-> ssl.rc, pi |-> ssl.pi, buf |-> buf, rd_end |-> ssl.rd_end, ub |-> ssl.ub]
        ELSE IF type = PP2_TYPE_NETNS
        THEN out(1, appended_usascii, buf, val + pp2_tlv_len + 1)
        ELSE IF type = PP2_TYPE_AWS
        THEN IF pp2_tlv_len < 2 THEN out(-ERR_PP2_TYPE_AWS, pi, buf, val)
             ELSE IF value[1] = PP2_SUBTYPE_AWS_VPCE_ID
             THEN out(1, appended_usascii, buf, val + pp2_tlv_len + 1)
             ELSE out(1, pi, buf, val + 1)
        ELSE IF type = PP2_TYPE_AZURE
        THEN IF pp2_tlv_len < 5 THEN out(-ERR_PP2_TYPE_AZURE, pi, buf, val)
             ELSE IF value[1] = PP2_SUBTYPE_AZURE_PRIVATEENDPOINT_LINKID
             THEN out(1, [pi EXCEPT !.tlvs = tlv_array_append_tlv(pi.tlvs,
                                        tlv_new(type, pp2_tlv_len, value))],
                      buf, val + pp2_tlv_len)
             ELSE out(1, pi, buf, val + 1)
        ELSE out(1, pi, buf, val)

(* The while loop over the TLVs; st = [buf, off, tlv_vectors_len, pi,      *)
(* rd_end].  A TLV whose 16-bit offset wraps to 0 never advances the loop: *)
(* the walk then ends with ub set.  pp2_parse_tlvs_next takes the outcome  *)
(* r of the switch for the TLV at st.off and goes on to the next TLV.      *)
RECURSIVE pp2_parse_tlvs(_, _, _)
RECURSIVE pp2_parse_tlvs_next(_, _, _, _, _)
pp2_parse_tlvs_next(st, r, pp2_tlv_offset, len, junk) ==
    IF r.rc # 1 \/ pp2_tlv_offset = 0
    THEN [rc |-> IF r.rc # 1 THEN r.rc ELSE -ERR_HEAP_ALLOC,
          pp_info |-> r.pi, buffer |-> r.buf,
          rd_end |-> Max(Max(st.rd_end, st.off + sizeof_pp2_tlv_t), r.rd_end),
          ub |-> r.ub \/ r.rc = 1]
    ELSE pp2_parse_tlvs([buf |-> r.buf, off |-> st.off + pp2_tlv_offset,
                         tlv_vectors_len |-> st.tlv_vectors_len - pp2_tlv_offset,
                         pi |-> r.pi,
                         rd_end |-> Max(Max(st.rd_end, st.off + sizeof_pp2_tlv_t), r.rd_end)],
                        len, junk)

pp2_parse_tlvs(st, len, junk) ==
    IF ~(st.tlv_vectors_len > sizeof_pp2_tlv_t)
    THEN [rc |-> HDR_SIZE + len, pp_info |-> st.pi, buffer |-> st.buf,
          rd_end |-> st.rd_end, ub |-> FALSE]
    ELSE LET h == Mem(st.buf, st.off, sizeof_pp2_tlv_t, junk)
             pp2_tlv_len == h[2] * 256 + h[3]
             pp2_tlv_offset == (sizeof_pp2_tlv_t + pp2_tlv_len) % 65536
         IN  IF pp2_tlv_offset > st.tlv_vectors_len
             THEN [rc |-> -ERR_PP2_TLV_LENGTH, pp_info |-> st.pi, buffer |-> st.buf,
                   rd_end |-> Max(st.rd_end, st.off + sizeof_pp2_tlv_t), ub |-> FALSE]
             ELSE pp2_parse_tlvs_next(st,
                      pp2_parse_tlv(st.buf, st.off, h[1], pp2_tlv_len, len, st.pi, junk),
                      pp2_tlv_offset, len, junk)

(* pp2_addr_len with the Inet block taken to be the two addresses only *)
pp2_addr_len_no_ports(fam) ==
    IF fam = ADDR_FAMILY_INET THEN 8
    ELSE IF fam = ADDR_FAMILY_INET6 THEN 36
    ELSE IF fam = ADDR_FAMILY_UNIX THEN 216
    ELSE 0

(* sizeof of the member of proxy_addr_t the parser reads for a family *)
pp2_addr_len(fam) ==
    IF fam = ADDR_FAMILY_INET THEN 12
    ELSE IF fam = ADDR_FAMILY_INET6 THEN 36
    ELSE IF fam = ADDR_FAMILY_UNIX THEN 216
    ELSE 0

(* buffer: the caller's allocation; junk: what a byte outside it reads as. *)
(* [rc, pp_info, buffer, rd_end, ub]: the return value, the pp_info_t and  *)
(* the allocation on return, the end of the highest byte read, and whether *)
(* the call left defined behaviour.  inet_ntop cannot fail here: the       *)
(* family is one it supports and the 108-byte fields hold any text form.   *)
pp2_parse_hdr(buffer, buffer_length, pp_info, junk) ==
    LET ver_cmd == Mem(buffer, 12, 1, junk)[1]
        famb == Mem(buffer, 13, 1, junk)[1]
        version == ver_cmd \div 16
        cmd == ver_cmd % 16
        pi1 == [pp_info EXCEPT !.local = IF cmd = 0 THEN 1 ELSE 0]
        pi2 == [pi1 EXCEPT !.address_family = famb \div 16]
        pi3 == [pi2 EXCEPT !.transport_protocol = famb % 16]
        fam == pi2.address_family
        len == Mem(buffer, 14, 1, junk)[1] * 256 + Mem(buffer, 15, 1, junk)[1]
        ret(rc, pi, rd) ==
            [rc |-> rc, pp_info |-> pi, buffer |-> buffer, rd_end |-> rd, ub |-> FALSE]
        text(t, field) == Poke(field, 0, t \o <<0>>)
        pi4 == [pi3 EXCEPT
                   !.src_addr = text(inet_ntop4(Mem(buffer, 16, 4, junk)), pi3.src_addr),
                   !.dst_addr = text(inet_ntop4(Mem(buffer, 20, 4, junk)), pi3.dst_addr),
                   !.src_port = Mem(buffer, 24, 1, junk)[1] * 256 + Mem(buffer, 25, 1, junk)[1],
                   !.dst_port = Mem(buffer, 26, 1, junk)[1] * 256 + Mem(buffer, 27, 1, junk)[1]]
        pi6 == [pi3 EXCEPT
                   !.src_addr = text(inet_ntop6(Mem(buffer, 16, 16, junk)), pi3.src_addr),
                   !.dst_addr = text(inet_ntop6(Mem(buffer, 32, 16, junk)), pi3.dst_addr),
                   !.src_port = Mem(buffer, 48, 1, junk)[1] * 256 + Mem(buffer, 49, 1, junk)[1],
                   !.dst_port = Mem(buffer, 50, 1, junk)[1] * 256 + Mem(buffer, 51, 1, junk)[1]]
        piu == [pi3 EXCEPT !.src_addr = Mem(buffer, 16, 108, junk),
                           !.dst_addr = Mem(buffer, 124, 108, junk)]
        addr_len == pp2_addr_len(fam)
    IN  IF version # 2 THEN ret(-ERR_PP2_VERSION, pp_info, 13)
        ELSE IF cmd > 1 THEN ret(-ERR_PP2_CMD, pp_info, 13)
        ELSE IF fam > ADDR_FAMILY_UNIX THEN ret(-ERR_PP2_ADDR_FAMILY, pi2, 14)
        ELSE IF pi3.transport_protocol > TRANSPORT_PROTOCOL_DGRAM
        THEN ret(-ERR_PP2_TRANSPORT_PROTOCOL, pi3, 14)
        ELSE IF buffer_length < HDR_SIZE + len THEN ret(-ERR_PP2_LENGTH, pi3, 16)
        ELSE IF fam # ADDR_FAMILY_UNSPEC /\ ~(len >= addr_len) THEN ret(-ERR_PP2_LENGTH, pi3, 16)
        ELSE pp2_parse_tlvs(
                 [buf |-> buffer,
                  off |-> IF fam = ADDR_FAMILY_UNIX THEN HDR_SIZE ELSE HDR_SIZE + addr_len,
                  tlv_vectors_len |-> IF fam = ADDR_FAMILY_UNIX THEN 0 ELSE len - addr_len,
                  pi |-> IF fam = ADDR_FAMILY_INET THEN pi4
                         ELSE IF fam = ADDR_FAMILY_INET6 THEN pi6
                         ELSE IF fam = ADDR_FAMILY_UNIX THEN piu
                         ELSE pi3,
                  rd_end |-> HDR_SIZE + addr_len],
                 len, junk)

(* ---------------------------------------------------------------------- *)
(* pp1_parse_hdr                                                           *)
(* ---------------------------------------------------------------------- *)
(* strchr(str + from, ch) in the C string str: the 0-based index of the    *)
(* first ch at or after from, -1 for NULL                                  *)
strchr(str, from, ch) ==
    LET hits == {i \in (from + 1)..Len(str) : str[i] = ch}
    IN  IF hits = {} THEN -1
        ELSE (CHOOSE i \in hits : \A j \in hits : i <= j) - 1

(* strstr(str, "\r\n"): the 0-based index of the first CRLF, -1 for NULL *)
strstr_crlf(str) ==
    LET hits == {i \in 1..(Len(str) - 1) : str[i] = 13 /\ str[i + 1] = 10}
    IN  IF hits = {} THEN -1
        ELSE (CHOOSE i \in hits : \A j \in hits : i <= j) - 1

(* "TCP4", "TCP6", "UNKNOWN" *)
TOK_TCP4 == <<84, 67, 80, 52>>
TOK_TCP6 == <<84, 67, 80, 54>>
TOK_UNKNOWN == <<85, 78, 75, 78, 79, 87, 78>>

(* [rc, pp_info, ub].  block is the 108-byte scratch array; str the C      *)
(* string in it (when the input fills all 108 bytes the string is taken to *)
(* end with the array).  A port token longer than 5 characters overruns    *)
(* the 6-byte src_port_str/dst_port_str: ub is set and the first 6         *)
(* characters are converted.                                               *)
pp1_parse_hdr(buffer, buffer_length, pp_info, junk) ==
    LET block == Poke(Zeros(PP1_MAX_LENGHT), 0,
                      Mem(buffer, 0, SeqMin(buffer_length, PP1_MAX_LENGHT), junk))
        str == CStr(block)
        at(k) == Mem(block, k, 1, 0)[1]
        block_end == strstr_crlf(str)
        pp1_hdr_len == block_end + 2
        ret(rc, pi) == [rc |-> rc, pp_info |-> pi, ub |-> FALSE]
        unknown == [pp_info EXCEPT !.address_family = ADDR_FAMILY_UNSPEC,
                                   !.transport_protocol = TRANSPORT_PROTOCOL_UNSPEC]
        inet_family == strchr(str, 6, 32)
        is4 == Mem(block, 6, 4, 0) = TOK_TCP4
        is6 == Mem(block, 6, 4, 0) = TOK_TCP6
        pi1 == [pp_info EXCEPT
                   !.address_family = IF is4 THEN ADDR_FAMILY_INET ELSE ADDR_FAMILY_INET6,
                   !.transport_protocol = TRANSPORT_PROTOCOL_STREAM]
        inet_pton(text) == IF is4 THEN inet_pton4(text).ok ELSE inet_pton6(text).ok
        (* source address *)
        p_src == 11
        src_address_end == strchr(str, p_src, 32)
        pi2 == [pi1 EXCEPT !.src_addr =
                   Poke(pi1.src_addr, 0, SubSeq(block, p_src + 1, src_address_end))]
        (* destination address *)
        p_dst == src_address_end + 1
        dst_address_end == strchr(str, p_dst, 32)
        pi3 == [pi2 EXCEPT !.dst_addr =
                   Poke(pi2.dst_addr, 0, SubSeq(block, p_dst + 1, dst_address_end))]
        (* source port *)
        p_sport == dst_address_end + 1
        src_port_end == strchr(str, p_sport, 32)
        src_port_str == SubSeq(block, p_sport + 1, src_port_end)
        sport == parse_port(CStr(Mem(src_port_str, 0, 6, 0)))
        pi4 == [pi3 EXCEPT !.src_port = sport.usport]
        (* destination port *)
        p_dport == src_port_end + 1
        dst_port_end == strchr(str, p_dport, 13)
        dst_port_str == SubSeq(block, p_dport + 1, dst_port_end)
        dport == parse_port(CStr(Mem(dst_port_str, 0, 6, 0)))
        pi5 == [pi4 EXCEPT !.dst_port = dport.usport]
        over == Len(src_port_str) > 5 \/ (dst_port_end # -1 /\ Len(dst_port_str) > 5)
        ports ==
            IF src_port_end = -1 THEN ret(-ERR_PP1_SRC_PORT, pi3)
            ELSE IF sport.rc = 0
            THEN [rc |-> -ERR_PP1_SRC_PORT, pp_info |-> pi3, ub |-> Len(src_port_str) > 5]
            ELSE IF at(src_port_end) # 32 THEN ret(-ERR_PP1_SPACE, pi4)
            ELSE IF dst_port_end = -1
            THEN [rc |-> -ERR_PP1_DST_PORT, pp_info |-> pi4, ub |-> Len(src_port_str) > 5]
            ELSE IF dport.rc = 0
            THEN [rc |-> -ERR_PP1_DST_PORT, pp_info |-> pi4, ub |-> over]
            ELSE IF at(dst_port_end) # 13 \/ at(dst_port_end + 1) # 10
            THEN [rc |-> -ERR_PP1_CRLF, pp_info |-> pi5, ub |-> over]
            ELSE [rc |-> pp1_hdr_len, pp_info |-> pi5, ub |-> over]
        addresses ==
            IF at(10) # 32 THEN ret(-ERR_PP1_SPACE, pi1)
            ELSE IF src_address_end = -1
            THEN ret(IF is4 THEN ERR_PP1_IPV4_SRC_IP ELSE ERR_PP1_IPV6_SRC_IP, pi1)
            ELSE IF ~inet_pton(CStr(pi2.src_addr))
            THEN ret(IF is4 THEN ERR_PP1_IPV4_SRC_IP ELSE ERR_PP1_IPV6_SRC_IP, pi2)
            ELSE IF at(src_address_end) # 32 THEN ret(-ERR_PP1_SPACE, pi2)
            ELSE IF dst_address_end = -1
            THEN ret(IF is4 THEN ERR_PP1_IPV4_DST_IP ELSE ERR_PP1_IPV6_DST_IP, pi2)
            ELSE IF ~inet_pton(CStr(pi3.dst_addr))
            THEN ret(IF is4 THEN ERR_PP1_IPV4_DST_IP ELSE ERR_PP1_IPV6_DST_IP, pi3)
            ELSE IF at(dst_address_end) # 32 THEN ret(-ERR_PP1_SPACE, pi3)
            ELSE ports
    IN  IF block_end = -1 THEN ret(-ERR_PP1_CRLF, pp_info)
        ELSE IF Mem(block, 0, 5, 0) # PP1_SIG THEN ret(-ERR_PP1_PROXY, pp_info)
        ELSE IF at(5) # 32 THEN ret(-ERR_PP1_SPACE, pp_info)
        ELSE IF inet_family = -1
        THEN IF pp1_hdr_len = 15 \/ Mem(block, 6, 7, 0) = TOK_UNKNOWN
             THEN ret(pp1_hdr_len, unknown)
             ELSE ret(-ERR_PP1_TRANSPORT_FAMILY, pp_info)
        ELSE IF is4 \/ is6 THEN addresses
        ELSE IF Mem(block, 6, 7, 0) = TOK_UNKNOWN THEN ret(pp1_hdr_len, unknown)
        ELSE ret(-ERR_PP1_TRANSPORT_FAMILY, pp_info)

(* ---------------------------------------------------------------------- *)
(* pp_parse_hdr                                                            *)
(* ---------------------------------------------------------------------- *)
(* what pp_parse_hdr hands back for a call that went to the parser named: *)
(* its return value, the pp_info_t, the buffer, the end of the bytes read  *)
pp_parse_ret(r, buffer, rd_end, parser) ==
    [rc |-> r.rc, pp_info |-> r.pp_info, buffer |-> buffer, rd_end |-> rd_end,
     ub |-> r.ub, parser |-> parser]

pp2_parse_ret(r) == pp_parse_ret(r, r.buffer, r.rd_end, "v2")

(* pp_parse_hdr with the v2 test made on the length of the signature alone *)
pp_parse_hdr_sig_length(buffer, buffer_length, junk) ==
    IF buffer_length >= 12 /\ Mem(buffer, 0, 12, junk) = PP2_SIG
    THEN pp2_parse_ret(pp2_parse_hdr(buffer, buffer_length, ZeroInfo, junk))
    ELSE IF buffer_length >= 8 /\ Mem(buffer, 0, 5, junk) = PP1_SIG
    THEN pp_parse_ret(pp1_parse_hdr(buffer, buffer_length, ZeroInfo, junk), buffer,
                      SeqMin(buffer_length, PP1_MAX_LENGHT), "v1")
    ELSE [rc |-> 0, pp_info |-> ZeroInfo, buffer |-> buffer, rd_end |-> 0,
          ub |-> FALSE, parser |-> "none"]

(* [rc, pp_info, buffer, rd_end, ub, parser]: parser names the parser the  *)
(* call went to ("v2", "v1", "none")                                       *)
pp_parse_hdr(buffer, buffer_length, junk) ==
    IF buffer_length >= 16 /\ Mem(buffer, 0, 12, junk) = PP2_SIG
    THEN pp2_parse_ret(pp2_parse_hdr(buffer, buffer_length, ZeroInfo, junk))
    ELSE IF buffer_length >= 8 /\ Mem(buffer, 0, 5, junk) = PP1_SIG
    THEN pp_parse_ret(pp1_parse_hdr(buffer, buffer_length, ZeroInfo, junk), buffer,
                      SeqMin(buffer_length, PP1_MAX_LENGHT), "v1")
    ELSE [rc |-> 0, pp_info |-> ZeroInfo, buffer |-> buffer,
          rd_end |-> IF buffer_length >= 16 THEN 12
                     ELSE IF buffer_length >= 8 THEN 5 ELSE 0,
          ub |-> FALSE, parser |-> "none"]

(* ---------------------------------------------------------------------- *)
(* pp1_create_hdr, pp_create_hdr                                           *)
(* ---------------------------------------------------------------------- *)
(* "PROXY UNKNOWN\r\n" *)
PP1_UNKNOWN_LINE == <<80, 82, 79, 88, 89, 32, 85, 78, 75, 78, 79, 87, 78, 13, 10>>

(* [error, pp_hdr_len, hdr, written]; the addresses are the C strings in   *)
(* the 40-byte copies of src_addr and dst_addr                             *)
pp1_create_hdr(pi) ==
    LET is4 == pi.address_family = ADDR_FAMILY_INET
        fam == IF is4 THEN TOK_TCP4 ELSE TOK_TCP6
        ok(text) == IF is4 THEN inet_pton4(text).ok ELSE inet_pton6(text).ok
        src_addr == CStr(Mem(pi.src_addr, 0, 40, 0))
        dst_addr == CStr(Mem(pi.dst_addr, 0, 40, 0))
        line == PP1_SIG \o <<32>> \o fam \o <<32>> \o src_addr \o <<32>> \o dst_addr
                \o <<32>> \o Dec(pi.src_port) \o <<32>> \o Dec(pi.dst_port) \o <<13, 10>>
        failed(e) == [error |-> e, pp_hdr_len |-> 0, hdr |-> <<>>, written |-> <<>>]
        made(l) == [error |-> ERR_NULL, pp_hdr_len |-> Len(l), hdr |-> l, written |-> l]
    IN  IF pi.transport_protocol # TRANSPORT_PROTOCOL_UNSPEC
           /\ pi.transport_protocol # TRANSPORT_PROTOCOL_STREAM
        THEN failed(-ERR_PP1_TRANSPORT_FAMILY)
        ELSE IF pi.address_family = ADDR_FAMILY_UNSPEC THEN made(PP1_UNKNOWN_LINE)
        ELSE IF pi.address_family = ADDR_FAMILY_INET
                \/ pi.address_family = ADDR_FAMILY_INET6
        THEN IF ~ok(CStr(pi.src_addr))
             THEN failed(IF is4 THEN -ERR_PP1_IPV4_SRC_IP ELSE -ERR_PP1_IPV6_SRC_IP)
             ELSE IF ~ok(CStr(pi.dst_addr))
             THEN failed(IF is4 THEN -ERR_PP1_IPV4_DST_IP ELSE -ERR_PP1_IPV6_DST_IP)
             ELSE made(line)
        ELSE failed(-ERR_PP1_TRANSPORT_FAMILY)

pp_create_hdr(version, pi, heap) ==
    IF version = 2 THEN pp2_create_hdr(pi, heap)
    ELSE IF version = 1 THEN pp1_create_hdr(pi)
    ELSE [error |-> -ERR_PP_VERSION, pp_hdr_len |-> 0, hdr |-> <<>>, written |-> <<>>]

(* ---------------------------------------------------------------------- *)
(* The callers: a sender that builds a pp_info_t and serialises it, and a  *)
(* receiver that parses what arrives                                       *)
(* ---------------------------------------------------------------------- *)
(* LOCAL, Unspec, no payload *)
RAW_LOCAL ==
    <<13, 10, 13, 10, 0, 13, 10, 81, 85, 73, 84, 10, 32, 0, 0, 0>>
(* LOCAL, Unspec, a CRC32C TLV *)
RAW_LOCAL_CRC ==
    <<13, 10, 13, 10, 0, 13, 10, 81, 85, 73, 84, 10, 32, 0, 0, 7, 3, 0, 4, 143, 126, 184, 169>>
(* PROXY, Inet/Stream, ALPN "h2" *)
RAW_INET_ALPN ==
    <<13, 10, 13, 10, 0, 13, 10, 81, 85, 73, 84, 10, 33, 17, 0, 17, 192, 168, 0, 1, 192, 168, 0, 11, 220, 4, 1, 187, 1, 0, 2, 104, 50>>
(* PROXY, Inet/Stream, an ALPN TLV of length 0 *)
RAW_INET_EMPTY ==
    <<13, 10, 13, 10, 0, 13, 10, 81, 85, 73, 84, 10, 33, 17, 0, 15, 192, 168, 0, 1, 192, 168, 0, 11, 220, 4, 1, 187, 1, 0, 0>>
(* PROXY, Inet/Dgram, NETNS "ab" *)
RAW_INET_NETNS ==
    <<13, 10, 13, 10, 0, 13, 10, 81, 85, 73, 84, 10, 33, 18, 0, 17, 192, 168, 0, 1, 192, 168, 0, 11, 220, 4, 1, 187, 48, 0, 2, 97, 98>>
(* LOCAL with an Inet/Stream address block *)
RAW_LOCAL_INET ==
    <<13, 10, 13, 10, 0, 13, 10, 81, 85, 73, 84, 10, 32, 17, 0, 12, 192, 168, 0, 1, 192, 168, 0, 11, 220, 4, 1, 187>>
(* PROXY, Inet6/Stream *)
RAW_INET6 ==
    <<13, 10, 13, 10, 0, 13, 10, 81, 85, 73, 84, 10, 33, 33, 0, 36, 0, 0, 0, 0, 0, 0, 0, 0, 0, 0, 0, 0, 0, 0, 0, 1, 32, 1, 13, 184, 0, 0, 0, 0, 0, 0, 0, 0, 0, 0, 0, 2, 0, 1, 0, 2>>
(* PROXY, Inet/Stream, len 8: shorter than the Inet address block *)
RAW_INET_SHORT ==
    <<13, 10, 13, 10, 0, 13, 10, 81, 85, 73, 84, 10, 33, 17, 0, 8, 192, 168, 0, 1, 192, 168, 0, 11>>
(* PROXY, Unix/Stream, ALPN "h2" after the address block *)
RAW_UNIX_ALPN ==
    <<13, 10, 13, 10, 0, 13, 10, 81, 85, 73, 84, 10, 33, 49, 0, 221, 47, 97, 0, 0, 0, 0, 0, 0, 0, 0, 0, 0, 0, 0, 0, 0, 0, 0, 0, 0, 0, 0, 0, 0, 0, 0, 0, 0, 0, 0, 0, 0, 0, 0, 0, 0, 0, 0, 0, 0, 0, 0, 0, 0, 0, 0, 0, 0, 0, 0, 0, 0, 0, 0, 0, 0, 0, 0, 0, 0, 0, 0, 0, 0, 0, 0, 0, 0, 0, 0, 0, 0, 0, 0, 0, 0, 0, 0, 0, 0, 0, 0, 0, 0, 0, 0, 0, 0, 0, 0, 0, 0, 0, 0, 0, 0, 0, 0, 0, 0, 0, 0, 0, 0, 0, 0, 0, 0, 47, 98, 0, 0, 0, 0, 0, 0, 0, 0, 0, 0, 0, 0, 0, 0, 0, 0, 0, 0, 0, 0, 0, 0, 0, 0, 0, 0, 0, 0, 0, 0, 0, 0, 0, 0, 0, 0, 0, 0, 0, 0, 0, 0, 0, 0, 0, 0, 0, 0, 0, 0, 0, 0, 0, 0, 0, 0, 0, 0, 0, 0, 0, 0, 0, 0, 0, 0, 0, 0, 0, 0, 0, 0, 0, 0, 0, 0, 0, 0, 0, 0, 0, 0, 0, 0, 0, 0, 0, 0, 0, 0, 0, 0, 0, 0, 0, 0, 0, 0, 0, 0, 0, 0, 0, 0, 0, 0, 1, 0, 2, 104, 50>>
(* PROXY TCP4 1.2.3.4 1.2.3.5 1 2\r\n *)
RAW_V1_TCP4 ==
    <<80, 82, 79, 88, 89, 32, 84, 67, 80, 52, 32, 49, 46, 50, 46, 51, 46, 52, 32, 49, 46, 50, 46, 51, 46, 53, 32, 49, 32, 50, 13, 10>>
(* PROXY TCP6 ::1 ::2 1 65535\r\n *)
RAW_V1_TCP6 ==
    <<80, 82, 79, 88, 89, 32, 84, 67, 80, 54, 32, 58, 58, 49, 32, 58, 58, 50, 32, 49, 32, 54, 53, 53, 51, 53, 13, 10>>
(* PROXY UNKNOWN\r\n *)
RAW_V1_UNKNOWN ==
    <<80, 82, 79, 88, 89, 32, 85, 78, 75, 78, 79, 87, 78, 13, 10>>
(* a v1 line that ends after the family token's first address character *)
RAW_V1_NO_SRC ==
    <<80, 82, 79, 88, 89, 32, 84, 67, 80, 52, 32, 49, 13, 10>>
(* a v1 line whose destination address does not convert *)
RAW_V1_BAD_DST ==
    <<80, 82, 79, 88, 89, 32, 84, 67, 80, 52, 32, 49, 46, 50, 46, 51, 46, 52, 32, 120, 32, 49, 32, 50, 13, 10>>
(* PROXY, Inet/Stream, an SSL TLV: ssl bit, verified, VERSION "ab", CN "ab" *)
RAW_INET_SSL ==
    <<13, 10, 13, 10, 0, 13, 10, 81, 85, 73, 84, 10, 33, 17, 0, 30, 192, 168, 0, 1, 192, 168, 0, 11, 220, 4, 1, 187, 32, 0, 15, 1, 0, 0, 0, 0, 33, 0, 2, 97, 98, 34, 0, 2, 97, 98>>
(* PROXY, Inet/Stream, an SSL TLV of length 1 and a NOOP TLV *)
RAW_INET_SSL_SHORT ==
    <<13, 10, 13, 10, 0, 13, 10, 81, 85, 73, 84, 10, 33, 17, 0, 19, 192, 168, 0, 1, 192, 168, 0, 11, 220, 4, 1, 187, 32, 0, 1, 1, 4, 0, 0>>
(* PROXY, Inet/Stream, an SSL TLV whose VERSION sub-TLV declares 65533 bytes *)
RAW_INET_SSL_WRAP ==
    <<13, 10, 13, 10, 0, 13, 10, 81, 85, 73, 84, 10, 33, 17, 0, 23, 192, 168, 0, 1, 192, 168, 0, 11, 220, 4, 1, 187, 32, 0, 8, 0, 0, 0, 0, 0, 33, 255, 253>>
(* PROXY, Inet/Stream, a NOOP TLV that declares 65533 bytes *)
RAW_INET_TLV_WRAP ==
    <<13, 10, 13, 10, 0, 13, 10, 81, 85, 73, 84, 10, 33, 17, 0, 16, 192, 168, 0, 1, 192, 168, 0, 11, 220, 4, 1, 187, 4, 255, 253, 0>>
(* PROXY, Inet/Stream, ALPN "h2", ALPN "ab" and a NOOP TLV *)
RAW_INET_TWO_ALPN ==
    <<13, 10, 13, 10, 0, 13, 10, 81, 85, 73, 84, 10, 33, 17, 0, 25, 192, 168, 0, 1, 192, 168, 0, 11, 220, 4, 1, 187, 1, 0, 2, 104, 50, 1, 0, 2, 97, 98, 4, 0, 0>>
(* PROXY, Inet/Stream, an AWS VPCE id "ab", a NETNS "ab" and a NOOP TLV *)
RAW_INET_AWS ==
    <<13, 10, 13, 10, 0, 13, 10, 81, 85, 73, 84, 10, 33, 17, 0, 26, 192, 168, 0, 1, 192, 168, 0, 11, 220, 4, 1, 187, 234, 0, 3, 1, 97, 98, 48, 0, 2, 97, 98, 4, 0, 0>>
(* PROXY, Unix/Stream, an SSL TLV whose sub-TLV has the type 0x30 *)
RAW_UNIX_SSL ==
    <<13, 10, 13, 10, 0, 13, 10, 81, 85, 73, 84, 10, 33, 49, 0, 227, 47, 97, 0, 0, 0, 0, 0, 0, 0, 0, 0, 0, 0, 0, 0, 0, 0, 0, 0, 0, 0, 0, 0, 0, 0, 0, 0, 0, 0, 0, 0, 0, 0, 0, 0, 0, 0, 0, 0, 0, 0, 0, 0, 0, 0, 0, 0, 0, 0, 0, 0, 0, 0, 0, 0, 0, 0, 0, 0, 0, 0, 0, 0, 0, 0, 0, 0, 0, 0, 0, 0, 0, 0, 0, 0, 0, 0, 0, 0, 0, 0, 0, 0, 0, 0, 0, 0, 0, 0, 0, 0, 0, 0, 0, 0, 0, 0, 0, 0, 0, 0, 0, 0, 0, 0, 0, 0, 0, 47, 98, 0, 0, 0, 0, 0, 0, 0, 0, 0, 0, 0, 0, 0, 0, 0, 0, 0, 0, 0, 0, 0, 0, 0, 0, 0, 0, 0, 0, 0, 0, 0, 0, 0, 0, 0, 0, 0, 0, 0, 0, 0, 0, 0, 0, 0, 0, 0, 0, 0, 0, 0, 0, 0, 0, 0, 0, 0, 0, 0, 0, 0, 0, 0, 0, 0, 0, 0, 0, 0, 0, 0, 0, 0, 0, 0, 0, 0, 0, 0, 0, 0, 0, 0, 0, 0, 0, 0, 0, 0, 0, 0, 0, 0, 0, 0, 0, 0, 0, 0, 0, 0, 0, 0, 0, 0, 0, 32, 0, 8, 0, 0, 0, 0, 0, 48, 0, 0>>
(* PROXY XXXXXXX\r\n *)
RAW_V1_XXXXXXX ==
    <<80, 82, 79, 88, 89, 32, 88, 88, 88, 88, 88, 88, 88, 13, 10>>
(* no PROXY header *)
RAW_HTTP ==
    <<71, 69, 84, 32, 47, 32, 72, 84, 84, 80, 47, 49, 46, 49, 13, 10, 13, 10>>

RawBuffers ==
    {RAW_LOCAL,
     RAW_LOCAL_CRC,
     RAW_INET_ALPN,
     RAW_INET_EMPTY,
     RAW_INET_NETNS,
     RAW_LOCAL_INET,
     RAW_INET6,
     RAW_INET_SHORT,
     RAW_UNIX_ALPN,
     RAW_V1_TCP4,
     RAW_V1_TCP6,
     RAW_V1_UNKNOWN,
     RAW_V1_NO_SRC,
     RAW_V1_BAD_DST,
     RAW_V1_XXXXXXX,
     RAW_HTTP}

(* v2 headers that carry TLVs *)
TlvBuffers ==
    {RAW_INET_ALPN,
     RAW_INET_EMPTY,
     RAW_INET_NETNS,
     RAW_INET_SSL,
     RAW_INET_SSL_SHORT,
     RAW_INET_TWO_ALPN,
     RAW_INET_AWS,
     RAW_UNIX_ALPN,
     RAW_UNIX_SSL}

(* v2 headers with a TLV whose 16-bit extent wraps *)
WrapBuffers ==
    {RAW_INET_SSL_WRAP,
     RAW_INET_TLV_WRAP}

(* the endpoints a sender describes: family, protocol, addresses, ports, local *)
Endpoint(fam, proto, src, dst, sport, dport, local) ==
    [ZeroInfo EXCEPT !.address_family = fam, !.transport_protocol = proto,
                     !.src_addr = InArray(src, ADDR_SIZE), !.dst_addr = InArray(dst, ADDR_SIZE),
                     !.src_port = sport, !.dst_port = dport, !.local = local]

Endpoints ==
    {Endpoint(ADDR_FAMILY_UNSPEC, TRANSPORT_PROTOCOL_UNSPEC, <<>>, <<>>, 0, 0, 1),
     Endpoint(ADDR_FAMILY_UNSPEC, TRANSPORT_PROTOCOL_UNSPEC, <<>>, <<>>, 0, 0, 0),
     Endpoint(ADDR_FAMILY_INET, TRANSPORT_PROTOCOL_STREAM,
              <<49, 57, 50, 46, 49, 54, 56, 46, 48, 46, 49>>, <<49, 57, 50, 46, 49, 54, 56, 46, 48, 46, 49, 49>>, 56324, 443, 0),
     Endpoint(ADDR_FAMILY_INET6, TRANSPORT_PROTOCOL_DGRAM,
              <<58, 58, 49>>, <<50, 48, 48, 49, 58, 100, 98, 56, 58, 58, 50>>, 1, 65535, 0),
     Endpoint(ADDR_FAMILY_UNIX, TRANSPORT_PROTOCOL_STREAM,
              <<47, 97>>, <<47, 98>>, 0, 0, 0)}

(* the alignment_power settings a sender uses, the TLV values it adds, the *)
(* bytes a fresh heap block or a byte outside a buffer may hold, and the   *)
(* bit masks a changed byte of a received buffer differs by                 *)
AlignmentPowers == {0, 2}
Values == {<<>>, <<104, 50>>}
Texts == {<<97, 98>>}
SslFlags == {<<0, 0, 0>>, <<0, 1, 0>>, <<1, 1, 1>>}
HeapBytes == {0, 255}
Masks == {1, 4, 128}
TlvMasks == {1, 4}

(* the settings of the four pp2_ssl_info flags (ssl, cert_in_connection,   *)
(* cert_in_session, cert_verified), the strings a sender passes to         *)
(* pp_info_add_ssl (version, cipher, sig_alg, key_alg, cn; an empty one is *)
(* passed as NULL), and a string of UINT16_MAX + 1 characters              *)
SslFlags4 == [1..4 -> {0, 1}]
SslFields == [1..5 -> {<<>>, <<97, 98>>}]
LongText == [i \in 1..(UINT16_MAX + 1) |-> 97]

(* bounds of the model *)
MaxTlvs == 1
MaxCut == 2
MaxRecords == 12

VARIABLES
    pc,             \* where the callers are: init, build, created, parsed,
                    \* reparsed, failed, crashed
    pp_info,        \* the sender's pp_info_t
    hdr,            \* what the last pp_create_hdr returned and stored
    buffer,         \* the receiver's buffer
    buffer_length,  \* the length the receiver passes with it
    entry,          \* the buffer as it was when pp_parse_hdr was last entered
    res,            \* what the last pp_parse_hdr returned and filled in
    first,          \* what the pp_parse_hdr before that returned
    origin,         \* how the buffer came about: create, corrupt, recreate, raw
    flipped,        \* the offset of the corrupted byte, -1 for none
    call,           \* the sender's last pp_info_add_* call: its arguments, what
                    \* it returned and the number of TLVs before it
    mem             \* the tlv_array_t of pp_info and the heap blocks behind it,
                    \* for a caller in pc = "heap"

vars == <<pc, pp_info, hdr, buffer, buffer_length, entry, res, first, origin, flipped, call,
          mem>>

NoHdr == [error |-> ERR_NULL, pp_hdr_len |-> 0, hdr |-> <<>>, written |-> <<>>]
NoRes == [rc |-> 0, pp_info |-> ZeroInfo, rd_end |-> 0, ub |-> FALSE, parser |-> "none"]
NoCall == [fn |-> "none", rc |-> 0, length |-> 0, fields |-> <<>>, before |-> 0]

Init ==
    /\ pc = "init"
    /\ pp_info = ZeroInfo
    /\ hdr = NoHdr
    /\ buffer = <<>>
    /\ buffer_length = 0
    /\ entry = <<>>
    /\ res = NoRes
    /\ first = NoRes
    /\ origin = "none"
    /\ flipped = -1
    /\ call = NoCall
    /\ mem = NoHeap

(* the sender fills in the endpoints and the options of its pp_info_t *)
SetInfo ==
    /\ pc = "init"
    /\ \E e \in Endpoints, crc \in {0, 1}, p \in AlignmentPowers :
          pp_info' = [e EXCEPT !.crc32c = crc, !.alignment_power = p]
    /\ pc' = "build"
    /\ UNCHANGED <<mem, call, hdr, buffer, buffer_length, entry, res, first, origin, flipped>>

Building == pc = "build" /\ Len(pp_info.tlvs) < MaxTlvs

(* r: what a pp_info_add_* call returned (1 for success) and stored *)
Built(r) ==
    /\ r.rc = 1
    /\ pp_info' = r.pp_info
    /\ UNCHANGED <<mem, call, pc, hdr, buffer, buffer_length, entry, res, first, origin, flipped>>

AddAlpn ==
    /\ Building
    /\ \E v \in Values : Built(pp_info_add_alpn(pp_info, Len(v), v))

AddAuthority ==
    /\ Building
    /\ \E t \in Texts : Built(pp_info_add_authority(pp_info, Len(t), t))

AddUniqueId ==
    /\ Building
    /\ \E t \in Texts : Built(pp_info_add_unique_id(pp_info, Len(t), t))

(* the caller sets the four SSL flags and hands over the strings; it has a *)
(* common name only when the client presented a certificate                *)
AddSsl ==
    /\ Building
    /\ \E f \in SslFlags, t \in Texts, heap \in HeapBytes :
          Built(pp_info_add_ssl([pp_info EXCEPT !.ssl = 1, !.cert_in_connection = f[1],
                                                !.cert_in_session = f[2],
                                                !.cert_verified = f[3]],
                                t, t, t, t, f[1] = 0, t, IF f[1] = 0 THEN 0 ELSE Len(t),
                                heap))

AddNetns ==
    /\ Building
    /\ \E t \in Texts : Built(pp_info_add_netns(pp_info, t))

AddAwsVpceId ==
    /\ Building
    /\ \E t \in Texts : Built(pp_info_add_aws_vpce_id(pp_info, t))

AddAzureLinkid ==
    /\ Building
    /\ Built(pp_info_add_azure_linkid(pp_info, <<1, 0, 0, 0>>))

(* the sender of a TLS connection fills in its endpoints and the four SSL  *)
(* flags                                                                   *)
SetSslInfo ==
    /\ pc = "init"
    /\ \E f \in SslFlags4 :
          pp_info' = [Endpoint(ADDR_FAMILY_INET, TRANSPORT_PROTOCOL_STREAM,
                               <<49, 46, 50, 46, 51, 46, 52>>, <<49, 46, 50, 46, 51, 46, 53>>,
                               1, 443, 0)
                         EXCEPT !.ssl = f[1], !.cert_in_connection = f[2],
                                !.cert_in_session = f[3], !.cert_verified = f[4]]
    /\ pc' = "build"
    /\ UNCHANGED <<mem, hdr, buffer, buffer_length, entry, res, first, origin, flipped, call>>

(* r: what a pp_info_add_* call returned and stored; the call is recorded *)
Called(r, fn, length, fields) ==
    /\ pp_info' = r.pp_info
    /\ call' = [fn |-> fn, rc |-> r.rc, length |-> length, fields |-> fields,
                before |-> Len(pp_info.tlvs)]
    /\ UNCHANGED <<mem, pc, hdr, buffer, buffer_length, entry, res, first, origin, flipped>>

(* pp_info_add_ssl with any of the five sub-fields supplied *)
AddSslFields ==
    /\ Building
    /\ \E x \in SslFields, heap \in HeapBytes :
          Called(pp_info_add_ssl(pp_info, x[1], x[2], x[3], x[4], x[5] = <<>>, x[5],
                                 Len(x[5]), heap),
                 "ssl", 0, x)

(* a builder is handed a string of UINT16_MAX + 1 characters *)
AddLong ==
    /\ Building
    /\ \/ Called(pp_info_add_netns(pp_info, LongText), "netns", Len(LongText), <<>>)
       \/ \E heap \in HeapBytes :
             Called(pp_info_add_ssl(pp_info, LongText, <<>>, <<>>, <<>>, TRUE, <<>>, 0, heap),
                    "ssl", Len(LongText), <<>>)

(* h: what pp_create_hdr returned and stored.  A store past the end of the *)
(* block it allocated either goes unnoticed or ends the process (crash).   *)
Created(h, crash) ==
    /\ crash => Len(h.written) > h.pp_hdr_len
    /\ hdr' = h
    /\ buffer' = IF crash THEN <<>> ELSE h.hdr
    /\ buffer_length' = IF crash THEN 0 ELSE h.pp_hdr_len
    /\ pc' = IF crash THEN "crashed"
             ELSE IF h.error = ERR_NULL THEN "created" ELSE "failed"

(* the sender calls pp_create_hdr(2, ...) *)
Create ==
    /\ pc = "build"
    /\ \E heap \in HeapBytes, crash \in BOOLEAN :
          Created(pp_create_hdr(2, pp_info, heap), crash)
    /\ origin' = "create"
    /\ UNCHANGED <<mem, call, pp_info, entry, res, first, flipped>>

(* the offsets at which a header loses its lowest bit in transit: in the   *)
(* signature, ver_cmd, fam, len, the first byte after the fixed header,    *)
(* the byte before the CRC32C TLV and the type byte of the CRC32C TLV      *)
CorruptOffsets(n) == {0, 12, 13, 15, 16, n - 8, n - 7}

Corrupt ==
    /\ pc = "created"
    /\ origin = "create"
    /\ pp_info.crc32c = 1
    /\ \E i \in CorruptOffsets(buffer_length) :
          /\ i >= 0 /\ i < buffer_length
          /\ buffer' = [buffer EXCEPT ![i + 1] = Xor8(@, 1)]
          /\ flipped' = i
    /\ origin' = "corrupt"
    /\ UNCHANGED <<mem, call, pc, pp_info, hdr, buffer_length, entry, res, first>>

(* bytes arrive from a peer: one of the sample buffers, whole, or with its *)
(* last bytes missing, or with one byte changed                            *)
Receive ==
    /\ pc = "init"
    /\ \E b \in RawBuffers :
          \/ \E cut \in 0..MaxCut :
                /\ cut <= Len(b)
                /\ buffer' = SubSeq(b, 1, Len(b) - cut)
                /\ flipped' = -1
          \/ \E i \in 0..(Len(b) - 1), m \in Masks :
                /\ buffer' = [b EXCEPT ![i + 1] = Xor8(@, m)]
                /\ flipped' = i
    /\ buffer_length' = Len(buffer')
    /\ pc' = "created"
    /\ origin' = "raw"
    /\ UNCHANGED <<mem, call, pp_info, hdr, entry, res, first>>

(* a v2 header with TLVs arrives, whole or with one byte of its TLV region  *)
(* changed                                                                 *)
ReceiveTlv ==
    /\ pc = "init"
    /\ \/ \E b \in TlvBuffers \cup WrapBuffers :
             /\ buffer' = b
             /\ flipped' = -1
       \/ \E b \in TlvBuffers, m \in TlvMasks :
             \E i \in (HDR_SIZE + pp2_addr_len(b[14] \div 16))..(Len(b) - 1) :
                /\ buffer' = [b EXCEPT ![i + 1] = Xor8(@, m)]
                /\ flipped' = i
    /\ buffer_length' = Len(buffer')
    /\ pc' = "created"
    /\ origin' = "raw"
    /\ UNCHANGED <<mem, call, pp_info, hdr, entry, res, first>>

(* What the caller sees of a pp_parse_hdr call.  A walk that left the      *)
(* buffer by tens of kilobytes or that cannot advance (r.ub) either        *)
(* returns what the walk came to, or returns ERR_HEAP_ALLOC once the       *)
(* appends have used up the heap, or never returns.                        *)
pp_parse_outcomes(r) ==
    IF r.ub /\ r.parser = "v2" THEN {r.rc, -ERR_HEAP_ALLOC} ELSE {r.rc}

(* r: what pp_parse_hdr computed; done: where the caller is when it returns *)
Parsed(r, done) ==
    \E rc \in pp_parse_outcomes(r), never \in BOOLEAN :
        /\ never => r.ub
        /\ res' = [rc |-> rc, pp_info |-> r.pp_info, rd_end |-> r.rd_end, ub |-> r.ub,
                   parser |-> r.parser]
        /\ buffer' = r.buffer
        /\ pc' = IF never THEN "crashed" ELSE done

(* the receiver calls pp_parse_hdr on its buffer *)
Parse ==
    /\ pc = "created"
    /\ \E junk \in HeapBytes : Parsed(pp_parse_hdr(buffer, buffer_length, junk), "parsed")
    /\ entry' = buffer
    /\ UNCHANGED <<mem, call, pp_info, hdr, buffer_length, first, origin, flipped>>

(* the receiver calls pp_parse_hdr on the same buffer once more *)
ParseAgain ==
    /\ pc = "parsed"
    /\ origin \in {"create", "raw"}
    /\ \E junk \in HeapBytes : Parsed(pp_parse_hdr(buffer, buffer_length, junk), "reparsed")
    /\ entry' = buffer
    /\ first' = res
    /\ UNCHANGED <<mem, call, pp_info, hdr, buffer_length, origin, flipped>>

(* the receiver serialises the pp_info_t it parsed, in the version of the  *)
(* header it came from, to pass it on                                      *)
Recreate ==
    /\ pc = "parsed"
    /\ origin \in {"create", "raw"}
    /\ res.rc > 0
    /\ \E heap \in HeapBytes, crash \in BOOLEAN :
          Created(pp_create_hdr(IF res.parser = "v1" THEN 1 ELSE 2, res.pp_info, heap), crash)
    /\ first' = res
    /\ origin' = "recreate"
    /\ UNCHANGED <<mem, call, pp_info, entry, res, flipped>>

(* pp_info_clear on both sides, the buffers are released *)
Clear ==
    /\ pc \in {"parsed", "reparsed", "failed"}
    /\ pc' = "init"
    /\ pp_info' = pp_info_clear(ZeroInfo)
    /\ hdr' = NoHdr
    /\ buffer' = <<>>
    /\ buffer_length' = 0
    /\ entry' = <<>>
    /\ res' = NoRes
    /\ first' = NoRes
    /\ origin' = "none"
    /\ flipped' = -1
    /\ call' = NoCall
    /\ UNCHANGED mem

(* the headers a caller parses into a pp_info_t whose allocations are      *)
(* followed                                                                *)
HeapBuffers == {RAW_INET_TWO_ALPN, RAW_LOCAL_INET}

HeapCaller == pc \in {"init", "heap"}

(* r: what a call on the heap returned; a store outside the block either   *)
(* goes unnoticed or ends the process                                      *)
HeapCalled(r, pi, fn) ==
    /\ mem' = r.heap
    /\ pp_info' = pi
    /\ call' = [fn |-> fn, rc |-> r.rc, length |-> 0, fields |-> <<>>,
                before |-> Len(pp_info.tlvs)]
    /\ \E crash \in BOOLEAN :
          /\ crash => r.heap.oob /\ ~mem.oob
          /\ pc' = IF crash THEN "crashed" ELSE "heap"
    /\ UNCHANGED <<hdr, buffer, buffer_length, entry, res, first, origin, flipped>>

(* r: what tlv_array_append_tlv_new returned for pp_info_add_alpn *)
HeapAdded(r) ==
    HeapCalled(r, IF r.rc = 1 THEN pp_info_add_alpn(pp_info, 2, <<104, 50>>).pp_info
                  ELSE pp_info,
               "alpn")

(* r: what pp_parse_hdr returned and filled in *)
HeapParsed(r) ==
    /\ mem.next + Len(r.pp_info.tlvs) <= MaxRecords
    /\ HeapCalled([rc |-> r.rc,
                   heap |-> pp_parse_hdr_heap(pp_info_memset_heap(mem), Len(r.pp_info.tlvs))],
                  r.pp_info, "parse")

(* pp_info_add_alpn(pp_info, 2, "h2"), each allocation failing or not *)
HeapAdd ==
    /\ HeapCaller
    /\ mem.next < MaxRecords
    /\ \E tlv_ok \in BOOLEAN, alloc_ok \in BOOLEAN :
          HeapAdded(tlv_array_append_tlv_new_heap(mem, tlv_ok, alloc_ok))

(* pp_parse_hdr(b, Len(b), pp_info) on the pp_info_t as it is *)
HeapParse ==
    /\ HeapCaller
    /\ \E b \in HeapBuffers, junk \in HeapBytes :
          HeapParsed(pp_parse_hdr(b, Len(b), junk))

(* pp_info_clear(pp_info) *)
HeapClear ==
    /\ pc = "heap"
    /\ HeapCalled([rc |-> 0, heap |-> tlv_array_clear_heap(mem)], pp_info_clear(pp_info),
                  "clear")

(* a sender and a receiver of v2 headers *)
Next ==
    \/ SetInfo
    \/ AddAlpn
    \/ AddAuthority
    \/ AddUniqueId
    \/ AddSsl
    \/ AddNetns
    \/ AddAwsVpceId
    \/ AddAzureLinkid
    \/ Create
    \/ Corrupt
    \/ Parse
    \/ ParseAgain
    \/ Recreate
    \/ Clear

Spec == Init /\ [][Next]_vars

(* a receiver of whatever bytes arrive *)
NextParse ==
    \/ Receive
    \/ Parse
    \/ ParseAgain
    \/ Recreate
    \/ Clear

SpecParse == Init /\ [][NextParse]_vars

(* a sender that describes a TLS connection, and the receiver of its header *)
NextSsl ==
    \/ SetSslInfo
    \/ AddSslFields
    \/ AddLong
    \/ Create
    \/ Parse
    \/ Clear

SpecSsl == Init /\ [][NextSsl]_vars

(* a receiver of v2 headers with TLVs *)
NextTlv ==
    \/ ReceiveTlv
    \/ Parse
    \/ ParseAgain
    \/ Recreate
    \/ Clear

SpecTlv == Init /\ [][NextTlv]_vars

(* one caller's pp_info_t and its heap blocks *)
NextHeap ==
    \/ HeapAdd
    \/ HeapParse
    \/ HeapClear

SpecHeap == Init /\ [][NextHeap]_vars

(* ---------------------------------------------------------------------- *)
(* Properties                                                              *)
(* ---------------------------------------------------------------------- *)
(* pp_parse_hdr has returned *)
Returned == pc \in {"parsed", "reparsed"}

(* the buffer parsed last is the unmodified output of the sender's create *)
ParsedCreated == pc = "parsed" /\ origin = "create"

(* the sender's pp_create_hdr(2, ...) succeeded *)
CreatedOk == origin = "create" /\ hdr.error = ERR_NULL /\ hdr.pp_hdr_len > 0

SameEndpoints(a, b) ==
    /\ a.address_family = b.address_family
    /\ a.transport_protocol = b.transport_protocol
    /\ CStr(a.src_addr) = CStr(b.src_addr)
    /\ CStr(a.dst_addr) = CStr(b.dst_addr)
    /\ a.src_port = b.src_port
    /\ a.dst_port = b.dst_port
    /\ a.local = b.local

SameSsl(a, b) ==
    /\ a.ssl = b.ssl
    /\ a.cert_in_connection = b.cert_in_connection
    /\ a.cert_in_session = b.cert_in_session
    /\ a.cert_verified = b.cert_verified

(* the TLVs as (type, length, value), in order *)
TlvSeq(tlvs) == [i \in 1..Len(tlvs) |-> <<tlvs[i].type, TlvLen(tlvs[i]), tlvs[i].value>>]

IsData(t) == t[1] # PP2_TYPE_NOOP /\ t[1] # PP2_TYPE_CRC32C

(* the size of the address block of a family on the wire *)
AddrBlock(f) ==
    IF f = ADDR_FAMILY_INET THEN 12
    ELSE IF f = ADDR_FAMILY_INET6 THEN 36
    ELSE IF f = ADDR_FAMILY_UNIX THEN 216
    ELSE 0

(* C1: v2 round trip.  Parsing the bytes pp_create_hdr(2, ...) produced    *)
(* succeeds and gives the same family, protocol, addresses, ports, local   *)
(* flag, SSL flags and crc32c flag, and the same TLVs in order (padding    *)
(* and checksum TLVs aside).                                               *)
C1_RoundTrip ==
    ParsedCreated =>
        /\ res.rc > 0
        /\ SameEndpoints(res.pp_info, pp_info)
        /\ SameSsl(res.pp_info, pp_info)
        /\ res.pp_info.crc32c = pp_info.crc32c
        /\ SelectSeq(TlvSeq(res.pp_info.tlvs), IsData)
               = SelectSeq(TlvSeq(pp_info.tlvs), IsData)

(* C2: idempotence.  When pp_parse_hdr succeeds on a v2 header with result *)
(* I, creating a v2 header from I succeeds, and parsing that header        *)
(* succeeds and gives I again.                                             *)
C2_Idempotent ==
    (origin = "recreate" /\ first.parser = "v2") =>
        /\ pc # "failed"
        /\ pc = "parsed" =>
              /\ res.rc > 0
              /\ SameEndpoints(res.pp_info, first.pp_info)
              /\ SameSsl(res.pp_info, first.pp_info)
              /\ res.pp_info.crc32c = first.pp_info.crc32c
              /\ TlvSeq(res.pp_info.tlvs) = TlvSeq(first.pp_info.tlvs)

(* C3: CRC acceptance.  A header created with crc32c requested parses to   *)
(* its full length, with the crc32c flag set and a CRC32C TLV stored that  *)
(* holds the four checksum bytes the serializer emitted.                   *)
C3_CrcAccepted ==
    (ParsedCreated /\ pp_info.crc32c = 1) =>
        /\ res.rc > 0
        /\ res.rc = hdr.pp_hdr_len
        /\ res.pp_info.crc32c = 1
        /\ \E i \in 1..Len(res.pp_info.tlvs) :
              TlvSeq(res.pp_info.tlvs)[i]
                  = <<PP2_TYPE_CRC32C, 4,
                      SubSeq(hdr.written, Len(hdr.written) - 3, Len(hdr.written))>>

(* C4: CRC corruption detection.  When one byte of a header created with  *)
(* crc32c requested is changed in the address block or in the TLVs before  *)
(* the CRC32C TLV, pp_parse_hdr returns the CRC32C error.                  *)
C4_CorruptionDetected ==
    (pc = "parsed" /\ origin = "corrupt"
        /\ flipped >= HDR_SIZE /\ flipped < buffer_length - 7) =>
        res.rc = -ERR_PP2_TYPE_CRC32C

(* C5: sign of the parse result.  A positive result is a number of bytes   *)
(* of the buffer that hold a header parsed to the end: it is at most the   *)
(* buffer length and, for a v1 line with addresses, both addresses         *)
(* converted.                                                              *)
C5_PositiveMeansParsed ==
    (Returned /\ res.rc > 0) =>
        /\ res.rc <= buffer_length
        /\ (res.parser = "v1" /\ res.pp_info.address_family = ADDR_FAMILY_INET) =>
              /\ inet_pton4(CStr(res.pp_info.src_addr)).ok
              /\ inet_pton4(CStr(res.pp_info.dst_addr)).ok
        /\ (res.parser = "v1" /\ res.pp_info.address_family = ADDR_FAMILY_INET6) =>
              /\ inet_pton6(CStr(res.pp_info.src_addr)).ok
              /\ inet_pton6(CStr(res.pp_info.dst_addr)).ok

(* C6: dispatch.  pp_parse_hdr goes to the v2 parser exactly when the      *)
(* buffer has at least 16 bytes and starts with the 12-byte v2 signature,  *)
(* otherwise to the v1 parser exactly when it has at least 8 bytes and     *)
(* starts with "PROXY", and otherwise returns 0.                           *)
C6_Dispatch ==
    Returned =>
        LET is2 == buffer_length >= 16 /\ Len(entry) >= 12 /\ SubSeq(entry, 1, 12) = PP2_SIG
            is1 == ~is2 /\ buffer_length >= 8 /\ Len(entry) >= 5
                   /\ SubSeq(entry, 1, 5) = PP1_SIG
        IN  /\ res.parser = "v2" <=> is2
            /\ res.parser = "v1" <=> is1
            /\ (~is2 /\ ~is1) => (res.parser = "none" /\ res.rc = 0)

(* a buffer of 15 bytes that starts with the v2 signature was parsed: 0 *)
C6_Witness ==
    /\ pc = "parsed"
    /\ buffer_length = 15
    /\ SubSeq(entry, 1, 12) = PP2_SIG
    /\ res.parser = "none"
    /\ res.rc = 0

(* C7: the input buffer is unchanged by parsing.  On return the buffer     *)
(* holds the bytes it held on entry, and a second pp_parse_hdr on it gives *)
(* the result of the first.                                                *)
C7_BufferUnchanged ==
    Returned =>
        /\ buffer = entry
        /\ pc = "reparsed" => (res.rc = first.rc /\ res.pp_info = first.pp_info)

(* C8: alignment.  With alignment_power p >= 2 the reported length is a    *)
(* multiple of 2^p, and what fills the gap between the unpadded header and *)
(* the reported length is one NOOP TLV, right after the last stored TLV    *)
(* and before the CRC32C TLV, with a value of gap - 3 bytes; no NOOP TLV   *)
(* is written when there is no gap.                                        *)
C8_Alignment ==
    (CreatedOk /\ pp_info.alignment_power >= 2) =>
        LET stored == HDR_SIZE + AddrBlock(pp_info.address_family)
                      + TlvsTotalLen(pp_info.tlvs, 1, 0)
            unpadded == stored + (IF pp_info.crc32c = 1 THEN 7 ELSE 0)
            gap == hdr.pp_hdr_len - unpadded
        IN  /\ hdr.pp_hdr_len % (2 ^ pp_info.alignment_power) = 0
            /\ Len(hdr.written) = hdr.pp_hdr_len
            /\ gap # 0 =>
                  /\ gap >= 3
                  /\ hdr.written[stored + 1] = PP2_TYPE_NOOP
                  /\ hdr.written[stored + 2] * 256 + hdr.written[stored + 3] = gap - 3

(* C9: length consistency of the v2 serializer.  The len field at bytes    *)
(* 14..15 is the reported length minus 16, and is the number of bytes the  *)
(* serializer writes after the fixed header.                               *)
C9_LenIsBytesWritten ==
    CreatedOk =>
        /\ hdr.written[15] * 256 + hdr.written[16] = hdr.pp_hdr_len - HDR_SIZE
        /\ Len(hdr.written) - HDR_SIZE = hdr.written[15] * 256 + hdr.written[16]

(* the fields of the fixed v2 header of the buffer pp_parse_hdr was given *)
EntryLen == entry[15] * 256 + entry[16]
EntryFamily == entry[14] \div 16
EntryNibblesValid ==
    /\ entry[13] \div 16 = 2
    /\ entry[13] % 16 <= 1
    /\ EntryFamily <= ADDR_FAMILY_UNIX
    /\ entry[14] % 16 <= TRANSPORT_PROTOCOL_DGRAM
EntryTooShort ==
    \/ buffer_length < HDR_SIZE + EntryLen
    \/ EntryLen < AddrBlock(EntryFamily)

(* C10 as stated: when the v2 parser succeeds it returns r = 16 + len with *)
(* 16 <= r <= buffer_length, and it returns ERR_PP2_LENGTH whenever        *)
(* buffer_length < 16 + len or len is smaller than the address block of    *)
(* the declared family.                                                    *)
C10_AsStated ==
    (Returned /\ res.parser = "v2") =>
        /\ res.rc > 0 =>
              (res.rc = HDR_SIZE + EntryLen /\ HDR_SIZE <= res.rc /\ res.rc <= buffer_length)
        /\ EntryTooShort => res.rc = -ERR_PP2_LENGTH

(* C10: bytes consumed by the v2 parser.  When the v2 parser succeeds it   *)
(* returns r = 16 + len with 16 <= r <= buffer_length; when the version,   *)
(* command, family and protocol of the header are valid and                *)
(* buffer_length < 16 + len or len is smaller than the address block of    *)
(* the family, it returns ERR_PP2_LENGTH.                                  *)
C10_Consumed ==
    (Returned /\ res.parser = "v2") =>
        /\ res.rc > 0 =>
              (res.rc = HDR_SIZE + EntryLen /\ HDR_SIZE <= res.rc /\ res.rc <= buffer_length)
        /\ (EntryNibblesValid /\ EntryTooShort) => res.rc = -ERR_PP2_LENGTH

(* a whole Inet header whose len is below the address block was refused *)
C10_Witness ==
    /\ pc = "parsed"
    /\ res.parser = "v2"
    /\ EntryNibblesValid
    /\ EntryFamily = ADDR_FAMILY_INET
    /\ buffer_length >= HDR_SIZE + EntryLen
    /\ EntryLen < AddrBlock(EntryFamily)
    /\ res.rc = -ERR_PP2_LENGTH

(* the TLV region of the v2 header pp_parse_hdr was given, and its first TLV *)
EntryTlvOff == HDR_SIZE + AddrBlock(EntryFamily)
EntryTlvRoom == EntryLen - AddrBlock(EntryFamily)
EntryTlvType == entry[EntryTlvOff + 1]
EntryTlvLen == entry[EntryTlvOff + 2] * 256 + entry[EntryTlvOff + 3]

(* the v2 parser was given a whole header whose fixed part is valid *)
EntryWalked == Returned /\ res.parser = "v2" /\ EntryNibblesValid /\ ~EntryTooShort

(* the TLV region starts with a record that lies inside it *)
EntryTlvFits ==
    /\ EntryTlvRoom >= sizeof_pp2_tlv_t
    /\ sizeof_pp2_tlv_t + EntryTlvLen <= EntryTlvRoom

SslSubTypes ==
    {PP2_SUBTYPE_SSL_VERSION, PP2_SUBTYPE_SSL_CN, PP2_SUBTYPE_SSL_CIPHER,
     PP2_SUBTYPE_SSL_SIG_ALG, PP2_SUBTYPE_SSL_KEY_ALG}

(* the sub-TLVs of an SSL payload p from position at on: whether they tile *)
(* p exactly, and their types in order                                     *)
RECURSIVE SslTiling(_, _, _)
SslTiling(p, at, types) ==
    IF at = Len(p) THEN [ok |-> TRUE, types |-> types]
    ELSE IF at + sizeof_pp2_tlv_t > Len(p) THEN [ok |-> FALSE, types |-> types]
    ELSE IF p[at + 1] \notin SslSubTypes THEN [ok |-> FALSE, types |-> types]
    ELSE IF at + sizeof_pp2_tlv_t + p[at + 2] * 256 + p[at + 3] > Len(p)
    THEN [ok |-> FALSE, types |-> types]
    ELSE SslTiling(p, at + sizeof_pp2_tlv_t + p[at + 2] * 256 + p[at + 3],
                   Append(types, p[at + 1]))

(* the first TLV of the region is an SSL TLV; its payload after the client *)
(* byte and the verify word                                                *)
EntrySsl == EntryWalked /\ EntryTlvFits /\ EntryTlvType = PP2_TYPE_SSL
EntrySslPayload ==
    SubSeq(entry, EntryTlvOff + sizeof_pp2_tlv_t + 5 + 1,
           EntryTlvOff + sizeof_pp2_tlv_t + EntryTlvLen)
EntrySslClient == entry[EntryTlvOff + sizeof_pp2_tlv_t + 1]
SslWellFormed(t, client) ==
    /\ t.ok
    /\ client % 2 = 1 => \E i \in 1..Len(t.types) : t.types[i] = PP2_SUBTYPE_SSL_VERSION
EntrySslWellFormed ==
    /\ EntryTlvLen >= 5
    /\ SslWellFormed(SslTiling(EntrySslPayload, 0, <<>>), EntrySslClient)

(* C11: SSL TLV validation.  When the v2 parser is given an SSL TLV whose   *)
(* sub-TLVs do not exactly tile the payload after the 5-byte prefix (one    *)
(* runs past the end, or has a type outside 0x21..0x25), or whose ssl bit   *)
(* is set without a VERSION sub-TLV, it returns ERR_PP2_TYPE_SSL; it        *)
(* succeeds only when the SSL TLV is well formed.                           *)
C11_SslValidated ==
    EntrySsl =>
        /\ ~EntrySslWellFormed => res.rc = -ERR_PP2_TYPE_SSL
        /\ res.rc > 0 => EntrySslWellFormed

(* the v1 line pp_parse_hdr was given: it starts with "PROXY ", holds a    *)
(* CRLF, and its family token runs from the 7th byte to the first space or *)
(* CR                                                                      *)
EntryLine ==
    /\ Returned /\ res.parser = "v1"
    /\ entry[6] = 32
    /\ \E i \in 7..(StrLen(entry) - 1) : entry[i] = 13 /\ entry[i + 1] = 10
RECURSIVE TokenFrom(_, _)
TokenFrom(line, i) ==
    IF i > Len(line) \/ line[i] = 32 \/ line[i] = 13 THEN <<>>
    ELSE <<line[i]>> \o TokenFrom(line, i + 1)
EntryToken == TokenFrom(entry, 7)

(* C12: the v1 protocol token.  A v1 line is accepted only with the token  *)
(* UNKNOWN, TCP4 or TCP6; every other token gives                          *)
(* ERR_PP1_TRANSPORT_FAMILY; family and protocol are Unspec/Unspec only    *)
(* for UNKNOWN, Inet/Stream only for TCP4, Inet6/Stream only for TCP6.     *)
C12_ProtocolToken ==
    EntryLine =>
        /\ EntryToken \notin {TOK_UNKNOWN, TOK_TCP4, TOK_TCP6}
               => res.rc = -ERR_PP1_TRANSPORT_FAMILY
        /\ res.rc > 0 =>
               \/ /\ EntryToken = TOK_UNKNOWN
                  /\ res.pp_info.address_family = ADDR_FAMILY_UNSPEC
                  /\ res.pp_info.transport_protocol = TRANSPORT_PROTOCOL_UNSPEC
               \/ /\ EntryToken = TOK_TCP4
                  /\ res.pp_info.address_family = ADDR_FAMILY_INET
                  /\ res.pp_info.transport_protocol = TRANSPORT_PROTOCOL_STREAM
               \/ /\ EntryToken = TOK_TCP6
                  /\ res.pp_info.address_family = ADDR_FAMILY_INET6
                  /\ res.pp_info.transport_protocol = TRANSPORT_PROTOCOL_STREAM

(* the sender's last builder call was a pp_info_add_ssl that returned true; *)
(* the SSL TLV it appended                                                 *)
SslAdded == call.fn = "ssl" /\ call.rc = 1
SslTlv == pp_info.tlvs[call.before + 1]

(* the sub-TLV type of the k-th sub-field argument of pp_info_add_ssl *)
SslFieldType(k) ==
    <<PP2_SUBTYPE_SSL_VERSION, PP2_SUBTYPE_SSL_CIPHER, PP2_SUBTYPE_SSL_SIG_ALG,
      PP2_SUBTYPE_SSL_KEY_ALG, PP2_SUBTYPE_SSL_CN>>[k]

(* the bytes a supplied sub-field takes in the SSL TLV, none when left out *)
Supplied(f) == IF f = <<>> THEN 0 ELSE sizeof_pp2_tlv_t + Len(f)

(* the k-th getter gives the bytes of field f *)
GetterGives(pi, k, f) ==
    pp_info_get_tlv_value(pi, SslFieldType(k), 0) = [null |-> FALSE, length |-> Len(f), value |-> f]

(* C13: SSL builder round trip.  After pp_info_add_ssl with any subset of   *)
(* the five sub-fields, the SSL TLV's declared length is 1 + 4 + the sum of *)
(* (3 + length) over the supplied sub-fields only; serializing and parsing  *)
(* succeeds and each supplied sub-field comes back from its getter with the *)
(* supplied bytes.                                                          *)
C13_SslRoundTrip ==
    SslAdded =>
        /\ TlvLen(SslTlv) = 1 + 4 + Supplied(call.fields[1]) + Supplied(call.fields[2])
                                + Supplied(call.fields[3]) + Supplied(call.fields[4])
                                + Supplied(call.fields[5])
        /\ ParsedCreated =>
              /\ res.rc > 0
              /\ \A k \in 1..5 :
                     call.fields[k] # <<>> => GetterGives(res.pp_info, k, call.fields[k])

(* C14: the SSL client byte.  pp_info_add_ssl writes a client byte with bit *)
(* 0 = ssl, bit 1 = cert_in_connection, bit 2 = cert_in_session, and a      *)
(* verify word that is 0 exactly when cert_verified is set; parsing the     *)
(* serialized header restores the four flags.                               *)
C14_ClientByte ==
    SslAdded =>
        /\ SslTlv.value[1] = pp_info.ssl + 2 * pp_info.cert_in_connection
                                + 4 * pp_info.cert_in_session
        /\ SubSeq(SslTlv.value, 2, 5) = <<0, 0, 0, 0>> <=> pp_info.cert_verified = 1
        /\ ParsedCreated => (res.rc > 0 /\ SameSsl(res.pp_info, pp_info))

(* the TLV t is one a getter for (type, subtype) looks for *)
GetterMatches(t, type, subtype) ==
    /\ t.type = type
    /\ subtype > 0 => (Len(t.value) >= 1 /\ t.value[1] = subtype)

(* what the first matching TLV of the sequence holds, the subtype byte left *)
(* out; a null pointer and length 0 when there is none                      *)
FirstMatch(tlvs, type, subtype) ==
    LET idx == {i \in 1..Len(tlvs) : GetterMatches(tlvs[i], type, subtype)}
        i == CHOOSE i \in idx : \A j \in idx : i <= j
    IN  IF idx = {} THEN [null |-> TRUE, length |-> 0, value |-> <<>>]
        ELSE IF subtype > 0
        THEN [null |-> FALSE, length |-> TlvLen(tlvs[i]) - 1, value |-> Tail(tlvs[i].value)]
        ELSE [null |-> FALSE, length |-> TlvLen(tlvs[i]), value |-> tlvs[i].value]

C16_LengthOverflow ==
    call.length > UINT16_MAX =>
        /\ call.rc = 0
        /\ Len(pp_info.tlvs) = call.before

(* the value bytes of the first TLV of the region *)
EntryTlvValue ==
    SubSeq(entry, EntryTlvOff + sizeof_pp2_tlv_t + 1, EntryTlvOff + sizeof_pp2_tlv_t + EntryTlvLen)

(* the walk dealt with the first TLV of the region: a record longer than   *)
(* the region is a length error, and an ALPN record inside it is the first *)
(* TLV of the pp_info_t of a successful parse                              *)
EntryFirstTlvHandled ==
    /\ sizeof_pp2_tlv_t + EntryTlvLen > EntryTlvRoom => res.rc = -ERR_PP2_TLV_LENGTH
    /\ (EntryTlvFits /\ EntryTlvType = PP2_TYPE_ALPN /\ res.rc > 0) =>
           /\ Len(res.pp_info.tlvs) >= 1
           /\ res.pp_info.tlvs[1].type = PP2_TYPE_ALPN
           /\ res.pp_info.tlvs[1].value = EntryTlvValue

(* C17: TLVs after a Unix address block.  For a v2 header with family Unix *)
(* and len > 216 the parser walks the TLVs after the 216-byte address      *)
(* block as for the other families: it appends a recognized TLV and        *)
(* reports a TLV that is longer than the region.                           *)
C17_UnixTlvs ==
    (EntryWalked /\ EntryFamily = ADDR_FAMILY_UNIX /\ EntryTlvRoom > sizeof_pp2_tlv_t) =>
        EntryFirstTlvHandled

(* C18: TLV walk framing.  Outside the Unix family, the v2 parser deals    *)
(* with the first record whenever at least 3 bytes remain in the TLV       *)
(* region: a final ALPN TLV with a zero-length value (exactly 3 bytes      *)
(* remaining) is appended, and a record whose length + 3 exceeds the bytes *)
(* remaining is answered with ERR_PP2_TLV_LENGTH.                          *)
C18_TlvFraming ==
    (EntryWalked /\ EntryFamily # ADDR_FAMILY_UNIX /\ EntryTlvRoom >= sizeof_pp2_tlv_t) =>
        EntryFirstTlvHandled

(* the sequence starts with an SSL envelope followed by sub-TLVs of the    *)
(* given types                                                             *)
SslFlattened(tlvs, types) ==
    /\ Len(tlvs) >= 1 + Len(types)
    /\ tlvs[1].type = PP2_TYPE_SSL
    /\ \A i \in 1..Len(types) : tlvs[1 + i].type = types[i]

(* C19: TLV order and SSL flattening.  After a successful v2 parse of a    *)
(* header whose first TLV is an SSL TLV, the TLV sequence of the pp_info_t *)
(* starts with the SSL envelope (type 0x20) followed immediately by the    *)
(* envelope's sub-TLVs, in wire order.                                     *)
C19_SslFlattening ==
    (EntrySsl /\ EntryFamily # ADDR_FAMILY_UNIX /\ res.rc > 0) =>
        SslFlattened(res.pp_info.tlvs, SslTiling(EntrySslPayload, 0, <<>>).types)

(* the sub-TLVs alone are stored in wire order *)
SslSubTlvsInOrder ==
    (EntrySsl /\ EntryFamily # ADDR_FAMILY_UNIX /\ res.rc > 0) =>
        SslFlattened(<<[type |-> PP2_TYPE_SSL]>> \o res.pp_info.tlvs,
                     SslTiling(EntrySslPayload, 0, <<>>).types)

(* C20: the v2 parser reads only bytes of the header it was given.  When  *)
(* it returns, every byte it has read lies at an offset below 16 + len and *)
(* below buffer_length (res.rd_end is one past the highest offset read).   *)
C20_ReadsInsideHeader ==
    (Returned /\ res.parser = "v2") =>
        /\ res.rd_end <= buffer_length
        /\ res.rd_end <= HDR_SIZE + EntryLen

(* C21: a rejected header leaves no TLVs behind.  Whenever pp_parse_hdr    *)
(* returns 0 or an error code, the TLV sequence of the pp_info_t it filled *)
(* is empty.                                                               *)
C21_RejectedLeavesNoTlvs ==
    (Returned /\ res.rc <= 0) => res.pp_info.tlvs = <<>>

(* C22: no TLV is orphaned.  After any sequence of pp_parse_hdr,           *)
(* pp_info_add_* and pp_info_clear calls on one pp_info_t, every TLV       *)
(* record that was allocated and not freed is an element of that           *)
(* pp_info_t's TLV array.                                                  *)
C22_NoOrphan ==
    \A tlv \in mem.live : \E i \in 1..Len(mem.stored) : mem.stored[i] = tlv

(* C23: TLV array capacity.  After any sequence of appends and clears,     *)
(* failing allocations included, len does not exceed the number of slots   *)
(* allocated, size equals that number, no store went outside the block,    *)
(* and an append that failed left len as it was.                           *)
C23_Capacity ==
    /\ mem.len <= mem.slots
    /\ mem.size = mem.slots
    /\ ~mem.oob
    /\ (call.fn = "alpn" /\ call.rc = 0) => mem.len = call.before

====
